---------------------------- MODULE Spec2Model ----------------------------
(***************************************************************************)
(* A model of tntorch's Tensor class (src/tntorch/tensor.py): a tensor     *)
(* network is a list of cores (2-index CP factors or 3-index TT cores),    *)
(* an optional Tucker factor per axis and an index-label list per axis.    *)
(*                                                                         *)
(* A dense array (torch.Tensor) is a record [sh, e]: sh is its shape and   *)
(* e maps every index tuple (1-based) to its entry.  Entries are integers: *)
(* every operation modelled here is a sum of products, which floating      *)
(* point computes exactly on small integers.                               *)
(***************************************************************************)
EXTENDS Integers, Sequences, FiniteSets, TLC

VARIABLES a, b, res, op

vars == <<a, b, res, op>>

(***************************************************************************)
(* Bounds of the model.                                                    *)
(***************************************************************************)
MaxN == 2          \* networks have 1..MaxN axes
MaxRank == 2       \* bond ranks and CP ranks are 1..MaxRank
MaxSize == 3       \* logical axis sizes are 1..MaxSize

(***************************************************************************)
(* Dense arrays.                                                           *)
(***************************************************************************)
RECURSIVE Sum(_)
Sum(f) ==
    IF Len(f) = 0 THEN 0 ELSE f[Len(f)] + Sum(SubSeq(f, 1, Len(f) - 1))

RECURSIVE Prod(_)
Prod(f) ==
    IF Len(f) = 0 THEN 1 ELSE f[Len(f)] * Prod(SubSeq(f, 1, Len(f) - 1))

Max2(x, y) == IF x >= y THEN x ELSE y

\* All index tuples of an array of shape sh.
Ix(sh) ==
    CASE Len(sh) = 0 -> {<<>>}
      [] Len(sh) = 1 -> {<<i>> : i \in 1..sh[1]}
      [] Len(sh) = 2 -> {<<i, j>> : i \in 1..sh[1], j \in 1..sh[2]}
      [] Len(sh) = 3 -> {<<i, j, k>> : i \in 1..sh[1], j \in 1..sh[2], k \in 1..sh[3]}
      [] Len(sh) = 4 -> {<<i, j, k, l>> : i \in 1..sh[1], j \in 1..sh[2],
                                          k \in 1..sh[3], l \in 1..sh[4]}
      [] Len(sh) = 5 -> {<<i, j, k, l, m>> : i \in 1..sh[1], j \in 1..sh[2],
                                             k \in 1..sh[3], l \in 1..sh[4], m \in 1..sh[5]}
      [] OTHER -> {<<i, j, k, l, m, n>> : i \in 1..sh[1], j \in 1..sh[2], k \in 1..sh[3],
                                          l \in 1..sh[4], m \in 1..sh[5], n \in 1..sh[6]}

\* Row-major offset (0-based) of index tuple ix in shape sh, and its inverse.
RECURSIVE Flat(_, _)
Flat(sh, ix) ==
    IF Len(sh) = 0 THEN 0
    ELSE Flat(SubSeq(sh, 1, Len(sh) - 1), SubSeq(ix, 1, Len(ix) - 1)) * sh[Len(sh)]
         + (ix[Len(ix)] - 1)

RECURSIVE Unflat(_, _)
Unflat(sh, k) ==
    IF Len(sh) = 0 THEN <<>>
    ELSE Append(Unflat(SubSeq(sh, 1, Len(sh) - 1), k \div sh[Len(sh)]),
                (k % sh[Len(sh)]) + 1)

\* The value of a failed torch call (a size mismatch raises RuntimeError).
Bad == [sh |-> <<-1>>, e |-> <<>>]

IsBad(T) == T.sh = <<-1>>

\* Python's None.
None == [sh |-> <<-2>>, e |-> <<>>]

IsNone(T) == T.sh = <<-2>>

\* None given where a list of factors, or a list of index labels, is expected.
NoUs == <<[sh |-> <<-3>>, e |-> <<>>]>>

NoIdxs == << <<-3>> >>

Dim(T) == Len(T.sh)

Numel(T) == Prod(T.sh)

Zeros(sh) == [sh |-> sh, e |-> [ix \in Ix(sh) |-> 0]]

Ones(sh) == [sh |-> sh, e |-> [ix \in Ix(sh) |-> 1]]

Eye(n) == [sh |-> <<n, n>>, e |-> [ix \in Ix(<<n, n>>) |-> IF ix[1] = ix[2] THEN 1 ELSE 0]]

Scale(T, c) == [sh |-> T.sh, e |-> [ix \in Ix(T.sh) |-> c * T.e[ix]]]

\* torch.reshape: same row-major sequence of entries, new shape.
Reshape(T, sh) ==
    IF IsBad(T) \/ Prod(sh) # Prod(T.sh) THEN Bad
    ELSE [sh |-> sh, e |-> [ix \in Ix(sh) |-> T.e[Unflat(T.sh, Flat(sh, ix))]]]


\* T.permute(perm), perm 1-based: result axis n is T's axis perm[n].
Permute(T, perm) ==
    IF IsBad(T) THEN Bad
    ELSE LET sh == [n \in 1..Len(perm) |-> T.sh[perm[n]]]
         IN [sh |-> sh,
             e |-> [ix \in Ix(sh) |->
                      T.e[[m \in 1..Len(perm) |->
                             ix[CHOOSE n \in 1..Len(perm) : perm[n] = m]]]]]

\* torch.cat([A, B], dim=d), d 1-based: every other size must agree.
Cat(A, B, d) ==
    IF IsBad(A) \/ IsBad(B) THEN Bad
    ELSE IF Dim(A) # Dim(B) \/ \E n \in 1..Dim(A) : n # d /\ A.sh[n] # B.sh[n] THEN Bad
    ELSE LET sh == [A.sh EXCEPT ![d] = A.sh[d] + B.sh[d]]
         IN [sh |-> sh,
             e |-> [ix \in Ix(sh) |->
                      IF ix[d] <= A.sh[d] THEN A.e[ix]
                      ELSE B.e[[ix EXCEPT ![d] = ix[d] - A.sh[d]]]]]

\* The sequence s without its d-th entry, and with x inserted as d-th entry.
Drop(s, d) == SubSeq(s, 1, d - 1) \o SubSeq(s, d + 1, Len(s))

Ins(s, d, x) == SubSeq(s, 1, d - 1) \o <<x>> \o SubSeq(s, d, Len(s))

\* torch.sum(T, dim=d, keepdim=keep), d 1-based.
SumDim(T, d, keep) ==
    IF IsBad(T) THEN Bad
    ELSE LET sh == IF keep THEN [T.sh EXCEPT ![d] = 1] ELSE Drop(T.sh, d)
         IN [sh |-> sh,
             e |-> [ix \in Ix(sh) |->
                      Sum([c \in 1..T.sh[d] |->
                             T.e[IF keep THEN [ix EXCEPT ![d] = c] ELSE Ins(ix, d, c)]])]]

\* torch.sum(T): the sum of all entries, a 0-dimensional array.
SumAll(T) ==
    [sh |-> <<>>,
     e |-> [ix \in {<<>>} |-> Sum([k \in 1..Numel(T) |-> T.e[Unflat(T.sh, k - 1)]])]]

\* T[None, ...]: a new leading axis of size 1.
Unsqueeze0(T) ==
    IF IsBad(T) THEN Bad
    ELSE [sh |-> <<1>> \o T.sh, e |-> [ix \in Ix(<<1>> \o T.sh) |-> T.e[Tail(ix)]]]

\* T[..., None]: a new trailing axis of size 1.
UnsqueezeLast(T) ==
    IF IsBad(T) THEN Bad
    ELSE [sh |-> Append(T.sh, 1),
          e |-> [ix \in Ix(Append(T.sh, 1)) |-> T.e[SubSeq(ix, 1, Len(ix) - 1)]]]

\* Index selection along axis d: sel lists the chosen positions (0-based).
Take(T, d, sel) ==
    IF IsBad(T) THEN Bad
    ELSE LET sh == [T.sh EXCEPT ![d] = Len(sel)]
         IN [sh |-> sh, e |-> [ix \in Ix(sh) |-> T.e[[ix EXCEPT ![d] = sel[ix[d]] + 1]]]]

\* Integer selection along axis d: position p (0-based); the axis disappears.
Select(T, d, p) ==
    IF IsBad(T) THEN Bad
    ELSE [sh |-> Drop(T.sh, d),
          e |-> [ix \in Ix(Drop(T.sh, d)) |-> T.e[Ins(ix, d, p + 1)]]]

\* torch's broadcasting of two shapes: they are aligned at their last axes, and
\* two sizes are compatible when they are equal or one of them is 1.
PadShape(sh, n) == [k \in 1..n |-> IF k <= n - Len(sh) THEN 1 ELSE sh[k - (n - Len(sh))]]

BroadcastOk(A, B) ==
    LET n == Max2(Dim(A), Dim(B))
    IN \A k \in 1..n : \/ PadShape(A.sh, n)[k] = PadShape(B.sh, n)[k]
                       \/ PadShape(A.sh, n)[k] = 1
                       \/ PadShape(B.sh, n)[k] = 1

BroadcastShape(A, B) ==
    LET n == Max2(Dim(A), Dim(B))
    IN [k \in 1..n |-> Max2(PadShape(A.sh, n)[k], PadShape(B.sh, n)[k])]

\* The entry of T that index ix of the broadcast result (of n axes) reads.
BroadcastAt(T, n, ix) ==
    T.e[[k \in 1..Dim(T) |-> IF T.sh[k] = 1 THEN 1 ELSE ix[k + n - Dim(T)]]]

\* Elementwise A + B.
BroadcastAdd(A, B) ==
    IF IsBad(A) \/ IsBad(B) THEN Bad
    ELSE IF ~BroadcastOk(A, B) THEN Bad
    ELSE LET sh == BroadcastShape(A, B)
         IN [sh |-> sh,
             e |-> [ix \in Ix(sh) |-> BroadcastAt(A, Len(sh), ix) + BroadcastAt(B, Len(sh), ix)]]

\* Elementwise A * B.
BroadcastMul(A, B) ==
    IF IsBad(A) \/ IsBad(B) THEN Bad
    ELSE IF ~BroadcastOk(A, B) THEN Bad
    ELSE LET sh == BroadcastShape(A, B)
         IN [sh |-> sh,
             e |-> [ix \in Ix(sh) |-> BroadcastAt(A, Len(sh), ix) * BroadcastAt(B, Len(sh), ix)]]

\* torch.einsum of two operands.  la, lb and lo are the index letters of A, of B
\* and of the output; a letter missing from lo is summed over (at most one is).
\* A letter used with two different sizes raises.
Einsum(la, lb, lo, A, B) ==
    IF IsBad(A) \/ IsBad(B) \/ Dim(A) # Len(la) \/ Dim(B) # Len(lb) THEN Bad
    ELSE LET inA(l) == \E n \in 1..Len(la) : la[n] = l
             size(l) == IF inA(l) THEN A.sh[CHOOSE n \in 1..Len(la) : la[n] = l]
                        ELSE B.sh[CHOOSE n \in 1..Len(lb) : lb[n] = l]
             clash == \E n \in 1..Len(lb) : inA(lb[n]) /\ size(lb[n]) # B.sh[n]
             inner == {l \in {la[n] : n \in 1..Len(la)} \cup {lb[n] : n \in 1..Len(lb)} :
                         \A n \in 1..Len(lo) : lo[n] # l}
             sh == [n \in 1..Len(lo) |-> size(lo[n])]
             val(l, ix, c) == IF \E n \in 1..Len(lo) : lo[n] = l
                              THEN ix[CHOOSE n \in 1..Len(lo) : lo[n] = l] ELSE c
             term(ix, c) == A.e[[n \in 1..Len(la) |-> val(la[n], ix, c)]]
                            * B.e[[n \in 1..Len(lb) |-> val(lb[n], ix, c)]]
         IN IF clash THEN Bad
            ELSE [sh |-> sh,
                  e |-> [ix \in Ix(sh) |->
                           IF inner = {} THEN term(ix, 1)
                           ELSE Sum([c \in 1..size(CHOOSE l \in inner : TRUE) |-> term(ix, c)])]]


\* T.repeat(..., rep, ...): rep copies of T one after another along axis d.
RepeatAx(T, d, rep) ==
    LET sh == [T.sh EXCEPT ![d] = T.sh[d] * rep]
    IN [sh |-> sh,
        e |-> [ix \in Ix(sh) |-> T.e[[ix EXCEPT ![d] = ((ix[d] - 1) % T.sh[d]) + 1]]]]

(***************************************************************************)
(* Tensor networks.  The outcome of a call is a record: kind is "Tensor"   *)
(* for a network, "Number" for a number (held in val), or the name of the  *)
(* exception raised.                                                       *)
(***************************************************************************)
Raise(exc) == [kind |-> exc, cores |-> <<>>, Us |-> <<>>, idxs |-> <<>>]

IsTensor(t) == t.kind = "Tensor"

\* Tensor.dim
dim(t) == Len(t.cores)

\* Tensor.shape, from cores and factors
ShapeOf(cores, Us) ==
    [n \in 1..Len(cores) |->
       IF IsNone(Us[n]) THEN cores[n].sh[Dim(cores[n]) - 1] ELSE Us[n].sh[1]]

shape(t) == ShapeOf(t.cores, t.Us)

\* Tensor.ranks_tt (a sequence of dim()+1 ranks)
ranks_tt(t) ==
    <<IF Dim(t.cores[1]) = 2 THEN t.cores[1].sh[2] ELSE t.cores[1].sh[1]>>
    \o [n \in 1..dim(t) |-> t.cores[n].sh[Dim(t.cores[n])]]

\* Tensor.ranks_tucker
ranks_tucker(t) == [n \in 1..dim(t) |-> t.cores[n].sh[Dim(t.cores[n]) - 1]]

\* torch.arange(n)
Arange(n) == [k \in 1..n |-> k - 1]

\* A variant of RanksMismatch that tests the pair only when core n+1 is a CP
\* core, and one that tests it only when core n+1 is a TT core.
RanksMismatchCPOnly(data, n) ==
    Dim(data[n + 1]) = 2 /\ data[n].sh[Dim(data[n])] # data[n + 1].sh[2]

RanksMismatchTTOnly(data, n) ==
    Dim(data[n + 1]) = 3 /\ data[n].sh[Dim(data[n])] # data[n + 1].sh[1]

\* A variant of FactorColsOk that compares with the core's second size, which
\* is the rank of a CP core.
FactorColsSecond(cores, Us, n) == cores[n].sh[2] = Us[n].sh[2]

\* The constructor's rank test on the adjacent pair (n, n+1).
RanksMismatch(data, n) ==
    \/ Dim(data[n + 1]) = 3 /\ data[n].sh[Dim(data[n])] # data[n + 1].sh[1]
    \/ Dim(data[n + 1]) = 2 /\ data[n].sh[Dim(data[n])] # data[n + 1].sh[2]

\* The constructor's test of the factor of axis n.
FactorDimOk(cores, Us, n) == Dim(Us[n]) = 2

FactorColsOk(cores, Us, n) == cores[n].sh[Dim(cores[n]) - 1] = Us[n].sh[2]

\* Tensor.__init__ on an explicit list of cores.  UsArg may be NoUs, idxsArg NoIdxs.
TensorInit(data, UsArg, idxsArg) ==
    IF \E n \in 1..Len(data) : ~(2 <= Dim(data[n]) /\ Dim(data[n]) <= 3)
    THEN Raise("ValueError")
    ELSE IF \E n \in 1..Len(data) - 1 : RanksMismatch(data, n)
    THEN Raise("ValueError")
    ELSE LET Us == IF UsArg = NoUs THEN [n \in 1..Len(data) |-> None] ELSE UsArg
         IN IF Len(Us) < Len(data) /\ \A n \in 1..Len(Us) :
                   IsNone(Us[n]) \/ (FactorDimOk(data, Us, n) /\ FactorColsOk(data, Us, n))
            THEN Raise("IndexError")
            ELSE IF \E n \in 1..Len(data) : n <= Len(Us) /\ ~IsNone(Us[n])
                       /\ ~(FactorDimOk(data, Us, n) /\ FactorColsOk(data, Us, n))
            THEN Raise("AssertionError")
            ELSE [kind |-> "Tensor", cores |-> data, Us |-> Us,
                  idxs |-> IF idxsArg = NoIdxs
                           THEN [n \in 1..Len(data) |-> Arange(ShapeOf(data, Us)[n])]
                           ELSE idxsArg]

\* A call of the constructor on cores computed by torch calls: a failed torch
\* call has raised before the constructor is entered.
NewTensor(cores, Us, idxs) ==
    IF (\E n \in 1..Len(cores) : IsBad(cores[n]))
       \/ (\E n \in 1..Len(Us) : IsBad(Us[n]))
    THEN Raise("RuntimeError")
    ELSE TensorInit(cores, Us, idxs)

\* Tensor.clone
clone(t) == NewTensor(t.cores, t.Us, t.idxs)

\* Tensor._cp_to_tt(factor): a CP factor as a TT core whose slices are diagonal
\* matrices; a TT core is returned as it is.
cp_to_tt(factor) ==
    IF Dim(factor) = 3 THEN factor
    ELSE LET R == factor.sh[2]
             I == factor.sh[1]
             core == [sh |-> <<R, R + 1, I>>,
                      e |-> [ix \in Ix(<<R, R + 1, I>>) |->
                               IF ix[2] = 1 THEN factor.e[<<ix[3], ix[1]>>] ELSE 0]]
             p == Permute(Reshape(core, <<R + 1, R, I>>), <<1, 3, 2>>)
         IN Take(p, 1, Arange(R))

\* Tensor.decompress_tucker_factors
decompress_tucker_factors(t) ==
    NewTensor([n \in 1..dim(t) |->
                 IF IsNone(t.Us[n]) THEN t.cores[n]
                 ELSE IF Dim(t.cores[n]) = 2
                 THEN Einsum(<<"j", "k">>, <<"a", "j">>, <<"a", "k">>, t.cores[n], t.Us[n])
                 ELSE Einsum(<<"i", "j", "k">>, <<"a", "j">>, <<"i", "a", "k">>,
                             t.cores[n], t.Us[n])],
              NoUs, t.idxs)

\* One step of Tensor.torch's loop: the running factor times core n.
TorchStep(factor, core, last) ==
    LET f == IF Dim(core) = 2
             THEN IF ~last
                  THEN Einsum(<<"a", "i">>, <<"b", "i">>, <<"a", "b", "i">>, factor, core)
                  ELSE UnsqueezeLast(Einsum(<<"a", "i">>, <<"b", "i">>, <<"a", "b">>,
                                            factor, core))
             ELSE Einsum(<<"a", "i">>, <<"i", "b", "j">>, <<"a", "b", "j">>, factor, core)
    IN IF IsBad(f) THEN Bad ELSE Reshape(f, <<f.sh[1] * f.sh[2], f.sh[3]>>)

RECURSIVE TorchLoop(_, _, _)
TorchLoop(factor, cores, n) ==
    IF n > Len(cores) THEN factor
    ELSE TorchLoop(TorchStep(factor, cores[n], n = Len(cores)), cores, n + 1)

\* Tensor.torch: the dense array a network stands for.
torch(t) ==
    LET d == decompress_tucker_factors(t)
        f == TorchLoop(Ones(<<1, ranks_tt(t)[1]>>), d.cores, 1)
        g == IF f.sh[2] > 1 THEN SumDim(f, 2, FALSE) ELSE Select(f, 2, 0)
    IN Reshape(g, [n \in 1..dim(d) |-> d.cores[n].sh[Dim(d.cores[n]) - 1]])


(***************************************************************************)
(* Input data: entries are drawn from a fixed pattern of small integers,   *)
(* starting at an offset (the seed), so that distinct cores differ.        *)
(***************************************************************************)
Pattern == <<1, 2, -1, 3, 1, -2, 2, -1, 1, 3, -2>>

Gen(sh, seed) ==
    [sh |-> sh, e |-> [ix \in Ix(sh) |-> Pattern[((Flat(sh, ix) + seed) % Len(Pattern)) + 1]]]

Formats(N) == [1..N -> {"TT", "CP"}]

\* An input network of Len(fmt) axes.  fmt[n] is the format of core n.  Axis k
\* has logical size I and, when S > 0, a Tucker factor of rank S; the other
\* axes have size 2 and no factor.  Every bond rank and CP rank is r, except
\* that the outer bonds of TT cores are 1 unless open.
NetSizes(fmt, k, I) == [n \in 1..Len(fmt) |-> IF n = k THEN I ELSE 2]

NetRanks(fmt, r, open) ==
    [n \in 1..Len(fmt) + 1 |->
       IF ~open /\ ((n = 1 /\ fmt[1] = "TT") \/ (n = Len(fmt) + 1 /\ fmt[Len(fmt)] = "TT"))
       THEN 1 ELSE r]

NetCore(fmt, k, S, I, r, open, seed, n) ==
    LET mid == IF n = k /\ S > 0 THEN S ELSE NetSizes(fmt, k, I)[n]
    IN IF fmt[n] = "CP" THEN Gen(<<mid, NetRanks(fmt, r, open)[n + 1]>>, seed + n)
       ELSE Gen(<<NetRanks(fmt, r, open)[n], mid, NetRanks(fmt, r, open)[n + 1]>>, seed + n)

NetFactor(k, S, I, seed, n) ==
    IF n = k /\ S > 0 THEN Gen(<<I, S>>, seed + n + 5) ELSE None

Net(fmt, k, S, I, r, open, seed) ==
    NewTensor([n \in 1..Len(fmt) |-> NetCore(fmt, k, S, I, r, open, seed, n)],
              [n \in 1..Len(fmt) |-> NetFactor(k, S, I, seed, n)], NoIdxs)

(***************************************************************************)
(* Arithmetic.  An operand is a network, or a number [kind |-> "Number",   *)
(* val |-> c].                                                             *)
(***************************************************************************)
Number(c) == [kind |-> "Number", val |-> c]

\* Python's round() of the fraction p/q (p, q > 0): to the nearest integer, a
\* tie going to the even one.
PyRound(p, q) ==
    LET f == p \div q
        m == p % q
    IN IF 2 * m < q THEN f
       ELSE IF 2 * m > q THEN f + 1
       ELSE IF f % 2 = 0 THEN f ELSE f + 1

\* Tensor.repeat(*rep), len(rep) >= dim().
repeat(t, rep) ==
    LET c == clone(t)
        N == dim(t)
        last == t.cores[N]
    IN [kind |-> "Tensor",
        cores |-> [n \in 1..Len(rep) |->
                     IF n > N THEN Ones(<<rep[n], last.sh[Dim(last)]>>)
                     ELSE IF ~IsNone(c.Us[n]) THEN c.cores[n]
                     ELSE RepeatAx(c.cores[n], Dim(c.cores[n]) - 1, rep[n])],
        Us |-> [n \in 1..Len(rep) |->
                  IF n > N THEN None
                  ELSE IF ~IsNone(c.Us[n]) THEN RepeatAx(c.Us[n], 1, rep[n])
                  ELSE None],
        idxs |-> c.idxs]

\* _broadcast(a, b): [kind |-> "ok", this, other], or the exception raised.
broadcast(x, y) ==
    IF shape(x) = shape(y) THEN [kind |-> "ok", this |-> x, other |-> y]
    ELSE IF dim(x) # dim(y) THEN [kind |-> "ValueError", this |-> x, other |-> y]
    ELSE [kind |-> "ok",
          this |-> repeat(x, [n \in 1..dim(x) |->
                                 IF shape(y)[n] <= shape(x)[n] THEN 1
                                 ELSE PyRound(shape(y)[n], shape(x)[n])]),
          other |-> repeat(y, [n \in 1..dim(x) |->
                                  IF shape(x)[n] <= shape(y)[n] THEN 1
                                  ELSE PyRound(shape(x)[n], shape(y)[n])])]

\* The cores of axis n as __add__ and __mul__ combine them: CP with CP stays CP
\* (with a leading unit axis for the time being), anything else becomes TT.
BothCP(this, other, n) == Dim(this.cores[n]) = 2 /\ Dim(other.cores[n]) = 2

Operand(this, other, n, core) ==
    IF BothCP(this, other, n) THEN Unsqueeze0(core) ELSE cp_to_tt(core)

TimesU(core, U) == Einsum(<<"i", "j", "k">>, <<"a", "j">>, <<"i", "a", "k">>, core, U)

\* One pass of __add__'s loop: the core and the factor of axis n.
AddAxis(self, this, other, n) ==
    LET core1 == Operand(this, other, n, this.cores[n])
        core2 == Operand(this, other, n, other.cores[n])
    IN IF ~IsNone(this.Us[n]) /\ ~IsNone(other.Us[n])
       THEN LET s1 == Cat(core1, Zeros(<<core2.sh[1], core1.sh[2], core1.sh[3]>>), 1)
                slice1 == Cat(s1, Zeros(<<core1.sh[1] + core2.sh[1], core1.sh[2],
                                          core2.sh[3]>>), 3)
                s2 == Cat(Zeros(<<core1.sh[1], core2.sh[2], core2.sh[3]>>), core2, 1)
                slice2 == Cat(Zeros(<<core1.sh[1] + core2.sh[1], core2.sh[2],
                                      core1.sh[3]>>), s2, 3)
            IN [c |-> Cat(slice1, slice2, 2), U |-> Cat(self.Us[n], other.Us[n], 2)]
       ELSE LET d1 == IF ~IsNone(this.Us[n]) THEN TimesU(core1, self.Us[n]) ELSE core1
                d2 == IF ~IsNone(other.Us[n]) THEN TimesU(core2, other.Us[n]) ELSE core2
                column1 == Cat(d1, Zeros(<<d2.sh[1], shape(this)[n], d1.sh[3]>>), 1)
                column2 == Cat(Zeros(<<d1.sh[1], shape(this)[n], d2.sh[3]>>), d2, 1)
            IN [c |-> Cat(column1, column2, 3), U |-> None]

\* A variant of AddSetUpCP that leaves the leading unit axis in place.
AddSetUpCPKept(cores, this, other) == cores

\* After the loop: a TT first core is summed over its left bond, a TT last core
\* over its right bond.
AddBoundary(cores, this, other) ==
    LET N == Len(cores)
        c1 == IF ~BothCP(this, other, 1)
              THEN [cores EXCEPT ![1] = SumDim(@, 1, TRUE)] ELSE cores
    IN IF ~BothCP(this, other, N) THEN [c1 EXCEPT ![N] = SumDim(@, 3, TRUE)] ELSE c1

\* After the loop: the cores that should be CP cores lose their leading axis.
AddSetUpCP(cores, this, other) ==
    [n \in 1..Len(cores) |->
       IF BothCP(this, other, n) THEN SumDim(cores[n], 1, FALSE) ELSE cores[n]]

\* The network of ones times a number that __add__ makes of a number.
OnesLike(self, factor) ==
    LET t == NewTensor([n \in 1..dim(self) |-> Ones(<<1, shape(self)[n], 1>>)], NoUs, NoIdxs)
    IN [t EXCEPT !.cores[1] = Scale(@, factor)]

\* Tensor.__add__
add(self, other0) ==
    LET other == IF other0.kind # "Tensor" THEN OnesLike(self, other0.val) ELSE other0
    IN IF dim(self) = 1
       THEN NewTensor(<<BroadcastAdd(decompress_tucker_factors(self).cores[1],
                                     decompress_tucker_factors(other).cores[1])>>,
                      NoUs, NoIdxs)
       ELSE LET bc == broadcast(self, other)
            IN IF bc.kind # "ok" THEN Raise(bc.kind)
               ELSE LET ax == [n \in 1..dim(bc.this) |-> AddAxis(self, bc.this, bc.other, n)]
                        cores == [n \in 1..dim(bc.this) |-> ax[n].c]
                    IN NewTensor(AddSetUpCP(AddBoundary(cores, bc.this, bc.other),
                                            bc.this, bc.other),
                                 [n \in 1..dim(bc.this) |-> ax[n].U], NoIdxs)

\* _core_kron(a, b): the slice-wise Kronecker product of two TT cores.
core_kron(x, y) ==
    IF IsBad(x) \/ IsBad(y) THEN Bad
    ELSE LET c == BroadcastMul(Reshape(x, <<x.sh[1], 1, x.sh[2], x.sh[3], 1>>),
                               Reshape(y, <<1, y.sh[1], y.sh[2], 1, y.sh[3]>>))
         IN IF IsBad(c) THEN Bad
            ELSE Reshape(c, <<x.sh[1] * y.sh[1], Numel(c) \div (x.sh[1] * y.sh[1] * x.sh[3] * y.sh[3]),
                              x.sh[3] * y.sh[3]>>)

\* __mul__'s test: the product is done on the factors unless it would blow up.
MulInFactorSpace(this, other, n) ==
    /\ ~IsNone(this.Us[n])
    /\ ~IsNone(other.Us[n])
    /\ this.cores[n].sh[2] * other.cores[n].sh[2] < shape(this)[n]

\* One pass of __mul__'s loop: the core and the factor of axis n.
MulAxis(this, other, n) ==
    LET core1 == Operand(this, other, n, this.cores[n])
        core2 == Operand(this, other, n, other.cores[n])
        r == IF MulInFactorSpace(this, other, n)
             THEN [c |-> Reshape(Einsum(<<"i", "j", "k">>, <<"a", "b", "c">>,
                                        <<"i", "a", "j", "b", "k", "c">>, core1, core2),
                                 <<core1.sh[1] * core2.sh[1], core1.sh[2] * core2.sh[2],
                                   core1.sh[3] * core2.sh[3]>>),
                   U |-> LET k == Einsum(<<"i", "j">>, <<"i", "k">>, <<"i", "j", "k">>,
                                         this.Us[n], other.Us[n])
                         IN IF IsBad(k) THEN Bad
                            ELSE Reshape(k, <<this.Us[n].sh[1], k.sh[2] * k.sh[3]>>)]
             ELSE [c |-> core_kron(IF ~IsNone(this.Us[n]) THEN TimesU(core1, this.Us[n])
                                   ELSE core1,
                                   IF ~IsNone(other.Us[n]) THEN TimesU(core2, other.Us[n])
                                   ELSE core2),
                   U |-> None]
    IN IF BothCP(this, other, n) THEN [r EXCEPT !.c = Select(@, 1, 0)] ELSE r

\* Tensor.__mul__
mul(self, other) ==
    IF other.kind # "Tensor"
    THEN [clone(self) EXCEPT !.cores[1] = Scale(@, other.val)]
    ELSE LET bc == broadcast(self, other)
         IN IF bc.kind # "ok" THEN Raise(bc.kind)
            ELSE LET ax == [n \in 1..dim(bc.this) |-> MulAxis(bc.this, bc.other, n)]
                 IN NewTensor([n \in 1..dim(bc.this) |-> ax[n].c],
                              [n \in 1..dim(bc.this) |-> ax[n].U], NoIdxs)

(***************************************************************************)
(* Indexing.  A key is a sequence of entries: an integer, a slice          *)
(* (start, stop and step, each absent or given), None, an ellipsis or an   *)
(* index array.  An absent part of a slice is <<>>.                        *)
(***************************************************************************)
KInt(i) == [t |-> "int", v |-> <<i>>, lo |-> <<>>, hi |-> <<>>, st |-> <<>>]

KIndex(v) == [t |-> "index", v |-> v, lo |-> <<>>, hi |-> <<>>, st |-> <<>>]

KSlice(lo, hi, st) == [t |-> "slice", v |-> <<>>, lo |-> lo, hi |-> hi, st |-> st]

KFull == KSlice(<<>>, <<>>, <<>>)

KNone == [t |-> "none", v |-> <<>>, lo |-> <<>>, hi |-> <<>>, st |-> <<>>]

KEllipsis == [t |-> "ellipsis", v |-> <<>>, lo |-> <<>>, hi |-> <<>>, st |-> <<>>]

\* A negative position counts from the end of an axis of size n.
Wrap(i, n) == IF i < 0 THEN i + n ELSE i

InRange(i, n) == -n <= i /\ i < n

\* The positions (0-based) a slice with a positive step selects on an axis of
\* size n: start and stop are wrapped and clamped to 0..n.
SliceClamp(x, n) == IF x < 0 THEN Max2(x + n, 0) ELSE IF x > n THEN n ELSE x

SliceSel(k, n) ==
    LET step == IF k.st = <<>> THEN 1 ELSE k.st[1]
        lo == IF k.lo = <<>> THEN 0 ELSE SliceClamp(k.lo[1], n)
        hi == IF k.hi = <<>> THEN n ELSE SliceClamp(k.hi[1], n)
        count == IF hi > lo THEN (hi - lo + step - 1) \div step ELSE 0
    IN [j \in 1..count |-> lo + (j - 1) * step]

\* T[..., k, ...] on axis d for an integer or an index array k.
IndexAx(T, d, k) ==
    IF k.t = "int" THEN Select(T, d, Wrap(k.v[1], T.sh[d]))
    ELSE Take(T, d, [j \in 1..Len(k.v) |-> Wrap(k.v[j], T.sh[d])])

\* A variant of process_key that expands the ellipsis without counting the
\* ellipsis itself among the entries given (one full slice too few).
process_key_short(t, key) ==
    LET nonecount == Cardinality({i \in 1..Len(key) : key[i].t = "none"})
        ells == {i \in 1..Len(key) : key[i].t = "ellipsis"}
        i == CHOOSE j \in ells : \A m \in ells : j <= m
        fill == dim(t) - (Len(key) - nonecount)
        k1 == IF ells = {} THEN key
              ELSE SubSeq(key, 1, i - 1) \o [j \in 1..Max2(fill, 0) |-> KFull]
                   \o SubSeq(key, i + 1, Len(key))
        rest == dim(t) - (Len(k1) - nonecount)
    IN IF \E j \in 1..Len(k1) : k1[j].t = "ellipsis"
       THEN [kind |-> "IndexError", key |-> <<>>]
       ELSE IF rest < 0 THEN [kind |-> "IndexError", key |-> <<>>]
       ELSE [kind |-> "ok", key |-> k1 \o [j \in 1..rest |-> KFull]]

\* Tensor._process_key on a tuple: [kind |-> "ok", key], or the exception raised.
process_key(t, key) ==
    LET nonecount == Cardinality({i \in 1..Len(key) : key[i].t = "none"})
        ells == {i \in 1..Len(key) : key[i].t = "ellipsis"}
        i == CHOOSE j \in ells : \A m \in ells : j <= m
        fill == dim(t) - (Len(key) - nonecount) + 1
        k1 == IF ells = {} THEN key
              ELSE SubSeq(key, 1, i - 1) \o [j \in 1..Max2(fill, 0) |-> KFull]
                   \o SubSeq(key, i + 1, Len(key))
        rest == dim(t) - (Len(k1) - nonecount)
    IN IF \E j \in 1..Len(k1) : k1[j].t = "ellipsis"
       THEN [kind |-> "IndexError", key |-> <<>>]
       ELSE IF rest < 0 THEN [kind |-> "IndexError", key |-> <<>>]
       ELSE [kind |-> "ok", key |-> k1 \o [j \in 1..rest |-> KFull]]

\* __getitem__.join_cores: a pending factor of an integer-indexed axis times the
\* core that follows it.
join_cores(c1, c2) ==
    IF Dim(c1) = 1 /\ Dim(c2) = 2
    THEN Einsum(<<"i">>, <<"a", "i">>, <<"a", "i">>, c1, c2)
    ELSE IF Dim(c1) = 2 /\ Dim(c2) = 2
    THEN Einsum(<<"i", "j">>, <<"a", "j">>, <<"i", "a", "j">>, c1, c2)
    ELSE IF Dim(c1) = 1 /\ Dim(c2) = 3
    THEN Einsum(<<"i">>, <<"i", "a", "j">>, <<"i", "a", "j">>, c1, c2)
    ELSE IF Dim(c1) = 2 /\ Dim(c2) = 3
    THEN Einsum(<<"i", "j">>, <<"j", "a", "k">>, <<"i", "a", "k">>, c1, c2)
    ELSE Bad

\* The state of __getitem__'s loop: the pending factors, the output lists, the
\* next axis (counter, 1-based), the previous entry's mode and the exception.
GetStart ==
    [int |-> None, index |-> None, index_done |-> FALSE, cores |-> <<>>, Us |-> <<>>,
     counter |-> 1, last_mode |-> "start", exc |-> "none"]

\* The first half of __getitem__.insert_core: a pending index factor becomes an
\* output core, with the pending integer factor folded in.
FlushIndex(st) ==
    IF IsNone(st.index) THEN st
    ELSE [st EXCEPT !.cores = Append(@, IF ~IsNone(st.int) THEN join_cores(st.int, st.index)
                                        ELSE st.index),
                    !.Us = Append(@, None),
                    !.int = None,
                    !.index = None,
                    !.index_done = TRUE]

\* __getitem__.insert_core(factors, core, key, U) for a slice key.
insert_core(st, core, key, U) ==
    LET s == FlushIndex(st)
        piece == IF IsNone(U)
                 THEN Take(core, Dim(core) - 1, SliceSel(key, core.sh[Dim(core) - 1]))
                 ELSE core
    IN [s EXCEPT !.cores = Append(@, IF ~IsNone(s.int) THEN join_cores(s.int, piece) ELSE piece),
                 !.Us = Append(@, IF IsNone(U) THEN None ELSE Take(U, 1, SliceSel(key, U.sh[1]))),
                 !.int = None]

\* __getitem__.get_key(counter, key) for an integer or an index array.
get_key(t, n, k) ==
    LET core == t.cores[n]
        U == t.Us[n]
        sl == IndexAx(U, 1, k)
    IN IF IsNone(U) THEN IndexAx(core, Dim(core) - 1, k)
       ELSE IF Dim(sl) = 1
       THEN IF Dim(core) = 3
            THEN Einsum(<<"i", "j", "k">>, <<"j">>, <<"i", "k">>, core, sl)
            ELSE Einsum(<<"j", "i">>, <<"j">>, <<"i">>, core, sl)
       ELSE IF Dim(core) = 3
            THEN Einsum(<<"i", "j", "k">>, <<"a", "j">>, <<"i", "a", "k">>, core, sl)
            ELSE Einsum(<<"j", "i">>, <<"a", "j">>, <<"a", "i">>, core, sl)

\* The integers of entry k are positions of axis n.
KeyInRange(t, n, k) == \A j \in 1..Len(k.v) : InRange(k.v[j], shape(t)[n])

\* Two index arrays on consecutive axes: their factors, joined.
JoinIndex(a1, a2) ==
    IF Dim(a1) = 2 /\ Dim(a2) = 2
    THEN Einsum(<<"a", "i">>, <<"a", "i">>, <<"a", "i">>, a1, a2)
    ELSE IF Dim(a1) = 2 /\ Dim(a2) = 3
    THEN Einsum(<<"a", "i">>, <<"i", "a", "j">>, <<"i", "a", "j">>, a1, a2)
    ELSE IF Dim(a1) = 3 /\ Dim(a2) = 2
    THEN Einsum(<<"i", "a", "j">>, <<"a", "j">>, <<"i", "a", "j">>, a1, a2)
    ELSE SumDim(BroadcastMul(UnsqueezeLast(a1), Unsqueeze0(Permute(a2, <<2, 1, 3>>))),
                3, FALSE)

\* Two integers on consecutive axes: their factors, joined.
JoinInt(c1, c2) ==
    IF Dim(c1) = 1 /\ Dim(c2) = 1
    THEN Einsum(<<"i">>, <<"i">>, <<"i">>, c1, c2)
    ELSE IF Dim(c1) = 1 /\ Dim(c2) = 2
    THEN Einsum(<<"i">>, <<"i", "j">>, <<"i", "j">>, c1, c2)
    ELSE IF Dim(c1) = 2 /\ Dim(c2) = 1
    THEN Einsum(<<"i", "j">>, <<"j">>, <<"i", "j">>, c1, c2)
    ELSE Einsum(<<"i", "j">>, <<"j", "k">>, <<"i", "k">>, c1, c2)

\* A variant of IndexStep that takes an index array also after the pending
\* index factor has been flushed.
IndexStepAnywhere(t, k, st) ==
    IF IsNone(st.index)
    THEN IF ~KeyInRange(t, st.counter, k) THEN [st EXCEPT !.exc = "IndexError"]
         ELSE [st EXCEPT !.index = get_key(t, st.counter, k), !.counter = @ + 1]
    ELSE IF st.index.sh[Dim(st.index) - 1] # Len(k.v) THEN [st EXCEPT !.exc = "ValueError"]
    ELSE IF ~KeyInRange(t, st.counter, k) THEN [st EXCEPT !.exc = "IndexError"]
    ELSE [st EXCEPT !.index = JoinIndex(@, get_key(t, st.counter, k)), !.counter = @ + 1]

\* The loop's branch for an index array.
IndexStep(t, k, st) ==
    IF st.index_done THEN [st EXCEPT !.exc = "IndexError"]
    ELSE IF IsNone(st.index)
    THEN IF ~KeyInRange(t, st.counter, k) THEN [st EXCEPT !.exc = "IndexError"]
         ELSE [st EXCEPT !.index = get_key(t, st.counter, k), !.counter = @ + 1]
    ELSE IF st.index.sh[Dim(st.index) - 1] # Len(k.v) THEN [st EXCEPT !.exc = "ValueError"]
    ELSE IF ~KeyInRange(t, st.counter, k) THEN [st EXCEPT !.exc = "IndexError"]
    ELSE [st EXCEPT !.index = JoinIndex(@, get_key(t, st.counter, k)), !.counter = @ + 1]

\* A variant of IntStep that gives the integer-indexed axis an output core of
\* its own (an axis of size 1) and leaves a pending factor of one.
IntStepOwnAxis(t, k, st) ==
    LET s == IF st.last_mode = "index" THEN FlushIndex(st) ELSE st
        p == Wrap(k.v[1], shape(t)[s.counter])
    IN IF ~KeyInRange(t, s.counter, k) THEN [s EXCEPT !.exc = "IndexError"]
       ELSE [insert_core(s, t.cores[s.counter], KSlice(<<p>>, <<p + 1>>, <<>>),
                         t.Us[s.counter])
               EXCEPT !.counter = @ + 1, !.int = Ones(<<1>>)]

\* The loop's branch for an integer.
IntStep(t, k, st) ==
    LET s == IF st.last_mode = "index" THEN FlushIndex(st) ELSE st
    IN IF ~KeyInRange(t, s.counter, k) THEN [s EXCEPT !.exc = "IndexError"]
       ELSE [s EXCEPT !.int = IF IsNone(@) THEN get_key(t, s.counter, k)
                               ELSE JoinInt(@, get_key(t, s.counter, k)),
                      !.counter = @ + 1]

\* One pass of __getitem__'s loop, on entry k.
GetStep(t, k, st) ==
    LET r == ranks_tt(t)[st.counter]
        s == IF k.t = "none"
             THEN insert_core(st, Reshape(Eye(r), <<r, 1, r>>), KFull, None)
             ELSE IF k.t = "slice"
             THEN [insert_core(st, t.cores[st.counter], k, t.Us[st.counter])
                     EXCEPT !.counter = @ + 1]
             ELSE IF k.t = "index" THEN IndexStep(t, k, st)
             ELSE IntStep(t, k, st)
    IN IF s.exc # "none" THEN s ELSE [s EXCEPT !.last_mode = k.t]

RECURSIVE GetLoop(_, _, _, _)
GetLoop(t, key, i, st) ==
    IF i > Len(key) \/ st.exc # "none" THEN st
    ELSE GetLoop(t, key, i + 1, GetStep(t, key[i], st))

\* After the loop: a pending integer factor goes into the last output core.
Absorb(core, f) ==
    IF Dim(core) = 2 /\ Dim(f) = 1
    THEN Einsum(<<"a", "i">>, <<"i">>, <<"a", "i">>, core, f)
    ELSE IF Dim(core) = 2 /\ Dim(f) = 2
    THEN Einsum(<<"a", "i">>, <<"i", "j">>, <<"i", "a", "j">>, core, f)
    ELSE IF Dim(core) = 3 /\ Dim(f) = 1
    THEN Einsum(<<"i", "a", "j">>, <<"j">>, <<"a", "i">>, core, f)
    ELSE Einsum(<<"i", "a", "j">>, <<"j", "k">>, <<"i", "a", "k">>, core, f)

\* After the loop: the pending factors are handled and the result is built.
GetFinish(st) ==
    IF st.exc # "none" THEN Raise(st.exc)
    ELSE IF st.last_mode = "index"
    THEN NewTensor(FlushIndex(st).cores, FlushIndex(st).Us, NoIdxs)
    ELSE IF st.last_mode = "int"
    THEN IF Len(st.cores) > 0
         THEN NewTensor([st.cores EXCEPT ![Len(st.cores)] = Absorb(@, st.int)], st.Us, NoIdxs)
         ELSE IF IsBad(st.int) THEN Raise("RuntimeError")
         ELSE Number(IF Numel(st.int) > 1 THEN SumAll(st.int).e[<<>>]
                     ELSE st.int.e[Unflat(st.int.sh, 0)])
    ELSE NewTensor(st.cores, st.Us, NoIdxs)

\* Tensor.__getitem__ on a key of integers, slices, None, ellipses and index arrays.
getitem(t, key) ==
    IF process_key(t, key).kind # "ok" THEN Raise(process_key(t, key).kind)
    ELSE GetFinish(GetLoop(t, process_key(t, key).key, 1, GetStart))


(***************************************************************************)
(* Rounding and orthogonalization.  QR and the truncated SVD are numerical *)
(* routines: of their results the model keeps the shapes, not the entries  *)
(* (e is empty).  QR is the reduced factorization: a matrix of m rows and  *)
(* n columns gives Q with min(m, n) columns and R with min(m, n) rows.     *)
(* Axes and cores are counted from 1 here, from 0 in the source.           *)
(***************************************************************************)
Min2(x, y) == IF x <= y THEN x ELSE y

Opaque(sh) == [sh |-> sh, e |-> <<>>]

\* tn.left_unfolding and tn.right_unfolding of a core, as shapes.
left_unfolding(sh) == <<Prod(sh) \div sh[Len(sh)], sh[Len(sh)]>>

right_unfolding(sh) == <<sh[1], Prod(sh) \div sh[1]>>

\* Tensor._cp_to_tt() without argument: every CP core becomes a TT core, in place.
cp_to_tt_all(t) ==
    LET N == dim(t)
        c1 == IF Dim(t.cores[1]) = 2 THEN [t.cores EXCEPT ![1] = Unsqueeze0(@)] ELSE t.cores
        c2 == [n \in 1..N |-> IF 1 < n /\ n < N THEN cp_to_tt(c1[n]) ELSE c1[n]]
    IN [t EXCEPT !.cores =
          IF Dim(c2[N]) = 2
          THEN [c2 EXCEPT ![N] = UnsqueezeLast(Permute(@, <<2, 1>>))]
          ELSE c2]

\* Tensor.factor_orthogonalize(mu): Q replaces the factor, R goes into the core.
factor_orthogonalize(t, mu) ==
    IF IsNone(t.Us[mu]) THEN t
    ELSE LET U == t.Us[mu]
             c == t.cores[mu]
             m == Min2(U.sh[1], U.sh[2])
         IN [t EXCEPT !.Us[mu] = Opaque(<<U.sh[1], m>>),
                      !.cores[mu] = IF c.sh[Dim(c) - 1] # U.sh[2] THEN Bad
                                    ELSE Opaque([c.sh EXCEPT ![Dim(c) - 1] = m])]

\* Tensor.left_orthogonalize(mu): core mu becomes Q, R is pushed into core mu+1.
left_orthogonalize(t, mu) ==
    LET f == factor_orthogonalize(t, mu)
        c == f.cores[mu]
        nxt == f.cores[mu + 1]
        lu == left_unfolding(c.sh)
        q == Min2(lu[1], lu[2])
    IN IF IsBad(c) THEN f
       ELSE [f EXCEPT !.cores[mu] = Opaque([c.sh EXCEPT ![Dim(c)] = q]),
                      !.cores[mu + 1] = IF lu[2] # right_unfolding(nxt.sh)[1] THEN Bad
                                        ELSE Opaque([nxt.sh EXCEPT ![1] = q])]

\* Tensor.right_orthogonalize(mu): core mu becomes Q, L is pushed into core mu-1.
right_orthogonalize(t, mu) ==
    LET f == factor_orthogonalize(t, mu)
        c == f.cores[mu]
        prv == f.cores[mu - 1]
        ru == right_unfolding(c.sh)
        q == Min2(ru[2], ru[1])
    IN IF IsBad(c) THEN f
       ELSE [f EXCEPT !.cores[mu] = Opaque([c.sh EXCEPT ![1] = q]),
                      !.cores[mu - 1] = IF left_unfolding(prv.sh)[2] # ru[1] THEN Bad
                                        ELSE Opaque([prv.sh EXCEPT ![Dim(prv)] = q])]

\* A variant of orthogonalize_calls that right-orthogonalizes every core, N
\* down to 2, whatever mu is.
orthogonalize_calls_right(N, mu) == [j \in 1..N - 1 |-> <<"right", N + 1 - j>>]

\* The calls Tensor.orthogonalize(mu) makes after _cp_to_tt(), in order: cores
\* 1..mu-1 are left-orthogonalized, then cores N down to mu+1
\* right-orthogonalized.
orthogonalize_calls(N, mu) ==
    [i \in 1..mu - 1 |-> <<"left", i>>] \o [j \in 1..N - mu |-> <<"right", N + 1 - j>>]

\* A variant of round_tt_step that does not pass the left part of the SVD to
\* core mu-1.
round_tt_step_kept(t, mu, k) ==
    [t EXCEPT !.cores[mu] = Opaque(<<k, t.cores[mu].sh[2], t.cores[mu].sh[3]>>)]

\* One pass of round_tt's truncation loop, for core mu >= 2: the truncated SVD
\* of its right unfolding keeps k components; the right part is the new core,
\* the left part is passed to core mu-1.
round_tt_step(t, mu, k) ==
    LET c == t.cores[mu]
        prv == t.cores[mu - 1]
    IN [t EXCEPT !.cores[mu] = Opaque(<<k, c.sh[2], c.sh[3]>>),
                 !.cores[mu - 1] = IF prv.sh[3] # c.sh[1] THEN Bad
                                   ELSE Opaque(<<prv.sh[1], prv.sh[2], k>>)]

\* The numbers of components the truncated SVD of a matrix of shape sh may
\* keep: at least one, at most its rows, its columns and rmax (0: no rmax).
SvdRanks(sh, rmax) ==
    1..Min2(Min2(sh[1], sh[2]), IF rmax = 0 THEN Max2(sh[1], sh[2]) ELSE rmax)

\* One pass of round_tucker's loop, for axis mu: the core is orthogonalized
\* against its factor (the identity if there is none), the factor is cut to k
\* columns by the truncated SVD and the remainder goes back into the core.
round_tucker_step(t, mu, k) ==
    LET c == t.cores[mu]
        U == IF IsNone(t.Us[mu]) THEN Eye(shape(t)[mu]) ELSE t.Us[mu]
    IN [t EXCEPT !.Us[mu] = IF U.sh[2] # c.sh[2] THEN Bad ELSE Opaque(<<U.sh[1], k>>),
                 !.cores[mu] = Opaque(<<c.sh[1], k, c.sh[3]>>)]

\* The matrix round_tucker hands to the truncated SVD for axis mu.
round_tucker_matrix(t, mu) ==
    LET c == t.cores[mu]
    IN <<shape(t)[mu], Min2(c.sh[1] * c.sh[3], c.sh[2])>>

(***************************************************************************)
(* The operations as a state machine.  a and b are the operands (b may be  *)
(* a number), op the last call made and res its outcome.                   *)
(***************************************************************************)
NoRes == Raise("none")

Call(name, key, data, Us) == [name |-> name, key |-> key, data |-> data, Us |-> Us]

NoCall == Call("none", <<>>, <<>>, <<>>)

Scalars == {2, -1}

\* Two networks of the same shape, in every pair of formats.
SameShapePairs ==
    \E N \in 1..MaxN : \E f1 \in Formats(N), f2 \in Formats(N) : \E k \in {1, N} :
      \E S1 \in {0, 1, MaxRank}, S2 \in {0, 1, MaxRank}, r1 \in {1, MaxRank}, r2 \in {1, MaxRank} :
        \E open \in BOOLEAN :
          /\ open => N >= 2
          /\ a = Net(f1, k, S1, MaxSize, r1, open, 0)
          /\ b = Net(f2, k, S2, MaxSize, r2, FALSE, 3)

\* Two networks of the same number of axes whose sizes differ on axis k.
OtherShapePairs ==
    \E N \in 1..MaxN : \E f1 \in Formats(N), f2 \in Formats(N) : \E k \in {1, N} :
      \E S1 \in 0..1, S2 \in 0..1, I1 \in 1..MaxSize, I2 \in 1..MaxSize :
        /\ I1 # I2
        /\ a = Net(f1, k, S1, I1, 1, FALSE, 0)
        /\ b = Net(f2, k, S2, I2, 1, FALSE, 3)

\* Two networks of different numbers of axes.
OtherDimPairs ==
    \E N1 \in 1..MaxN, N2 \in 1..MaxN : \E f1 \in Formats(N1), f2 \in Formats(N2) :
      /\ N1 # N2
      /\ a = Net(f1, 1, 0, 2, 1, FALSE, 0)
      /\ b = Net(f2, 1, 0, 2, 1, FALSE, 3)

\* A network and a number.
NumberPairs ==
    \E N \in 1..MaxN : \E f1 \in Formats(N) : \E k \in {1, N} :
      \E S1 \in {0, 1, MaxRank}, r1 \in {1, MaxRank}, open \in BOOLEAN, c \in Scalars :
        /\ open => N >= 2
        /\ a = Net(f1, k, S1, MaxSize, r1, open, 0)
        /\ b = Number(c)

InitArith ==
    /\ SameShapePairs \/ OtherShapePairs \/ OtherDimPairs \/ NumberPairs
    /\ res = NoRes
    /\ op = NoCall

\* res = a + b
Add ==
    /\ op.name = "none"
    /\ res' = add(a, b)
    /\ op' = Call("add", <<>>, <<>>, <<>>)
    /\ UNCHANGED <<a, b>>

\* res = a * b
Mul ==
    /\ op.name = "none"
    /\ res' = mul(a, b)
    /\ op' = Call("mul", <<>>, <<>>, <<>>)
    /\ UNCHANGED <<a, b>>

NextArith == Add \/ Mul

SpecArith == InitArith /\ [][NextArith]_vars

(***************************************************************************)
(* The constructor called on an explicit list of cores.  op records the    *)
(* arguments, res the outcome.                                             *)
(***************************************************************************)
MaxCores == 3      \* explicit lists have 0..MaxCores cores

\* A list of cores with the formats fmt.  The bonds are r up to bond p and s
\* after it; a CP core takes its rank from the bond on its right.  Core d, if
\* any, has a defect: a left rank one too large, one dimension or four.
ListRanks(fmt, p, r, s) == [n \in 1..Len(fmt) + 1 |-> IF n <= p THEN r ELSE s]

ListCore(fmt, p, r, s, d, defect, n) ==
    LET left == ListRanks(fmt, p, r, s)[n] + (IF d = n /\ defect = "left" THEN 1 ELSE 0)
        right == ListRanks(fmt, p, r, s)[n + 1]
    IN IF d = n /\ defect = "1d" THEN Gen(<<2>>, n)
       ELSE IF d = n /\ defect = "4d" THEN Gen(<<left, 2, right, 1>>, n)
       ELSE IF fmt[n] = "CP" THEN Gen(<<2, right>>, n)
       ELSE Gen(<<left, 2, right>>, n)

CoreList(fmt, p, r, s, d, defect) ==
    [n \in 1..Len(fmt) |-> ListCore(fmt, p, r, s, d, defect, n)]

\* A list of L factors, all None but the k-th (if any), which is a matrix with
\* the core's middle size as column count ("ok") or one less ("cols"), or an
\* array of one or of three dimensions.
FactorOf(q) ==
    IF q = "ok" THEN Gen(<<3, 2>>, 5)
    ELSE IF q = "cols" THEN Gen(<<3, 1>>, 5)
    ELSE IF q = "1d" THEN Gen(<<2>>, 5)
    ELSE Gen(<<3, 2, 1>>, 5)

FactorList(L, k, q) == [n \in 1..L |-> IF n = k THEN FactorOf(q) ELSE None]

\* The argument lists tried: lists of cores with or without a defect and no
\* factors given, and sound lists of cores with a list of factors.
DefectInputs ==
    {[data |-> CoreList(fmt, p, r, s, d, defect), Us |-> NoUs] :
       fmt \in UNION {Formats(N) : N \in 0..MaxCores},
       p \in 0..MaxCores, r \in 1..MaxRank, s \in 1..MaxRank,
       d \in 0..MaxCores, defect \in {"left", "1d", "4d"}}

FactorInputs ==
    {[data |-> CoreList(fmt, 0, r, r, 0, "left"), Us |-> FactorList(L, k, q)] :
       fmt \in UNION {Formats(N) : N \in 1..MaxN},
       r \in 1..MaxRank, L \in 0..MaxN + 1, k \in 0..MaxN + 1,
       q \in {"ok", "cols", "1d", "3d"}}

InitCtor ==
    /\ a = NoRes
    /\ b = NoRes
    /\ res = NoRes
    /\ op = NoCall

\* res = Tensor(data, Us=Us)
Construct ==
    /\ op.name = "none"
    /\ \E inp \in DefectInputs \cup FactorInputs :
         /\ res' = TensorInit(inp.data, inp.Us, NoIdxs)
         /\ op' = Call("init", <<>>, inp.data, inp.Us)
    /\ UNCHANGED <<a, b>>

NextCtor == Construct

SpecCtor == InitCtor /\ [][NextCtor]_vars

(***************************************************************************)
(* Indexing a network.  a is the network, b holds the key.                 *)
(***************************************************************************)
MaxKey == 3        \* keys have 1..MaxKey entries

KeyEntries ==
    {KInt(0), KInt(-1), KFull, KSlice(<<1>>, <<>>, <<>>), KSlice(<<>>, <<>>, <<2>>),
     KNone, KEllipsis, KIndex(<<0, 1>>), KIndex(<<-1, 0>>), KIndex(<<1>>)}

Keys == UNION {[1..L -> KeyEntries] : L \in 1..MaxKey}

KeyOf(key) == [kind |-> "Key", key |-> key]

InitIndex ==
    /\ \E N \in 1..MaxN : \E fmt \in Formats(N) : \E k \in {1, N} : \E S \in {0, MaxRank} :
         a = Net(fmt, k, S, MaxSize, MaxRank, FALSE, 0)
    /\ \E key \in Keys : b = KeyOf(key)
    /\ res = NoRes
    /\ op = NoCall

\* res = a[key]
GetItem ==
    /\ op.name = "none"
    /\ res' = getitem(a, b.key)
    /\ op' = Call("getitem", b.key, <<>>, <<>>)
    /\ UNCHANGED <<a, b>>

NextIndex == GetItem

SpecIndex == InitIndex /\ [][NextIndex]_vars

(***************************************************************************)
(* Indexing with index arrays: networks of up to MaxN + 1 axes, so that    *)
(* two index arrays can have an integer or a slice between them.           *)
(***************************************************************************)
FancyEntries == {KInt(0), KFull, KNone, KIndex(<<0, 1>>), KIndex(<<1>>)}

FancyKeys == UNION {[1..L -> FancyEntries] : L \in 1..MaxKey}

InitFancy ==
    /\ \E N \in 1..MaxN + 1 : \E fmt \in Formats(N) : \E k \in {1, N} : \E S \in {0, MaxRank} :
         a = Net(fmt, k, S, MaxSize, MaxRank, FALSE, 0)
    /\ \E key \in FancyKeys : b = KeyOf(key)
    /\ res = NoRes
    /\ op = NoCall

SpecFancy == InitFancy /\ [][NextIndex]_vars

(***************************************************************************)
(* Key normalisation alone.  a is the network, b holds the key, res is     *)
(* the outcome of _process_key: [kind |-> "ok", key], or the exception.    *)
(***************************************************************************)
InitKey ==
    /\ \E N \in 1..MaxN : \E fmt \in Formats(N) : a = Net(fmt, 1, 0, 2, 1, FALSE, 0)
    /\ \E key \in Keys : b = KeyOf(key)
    /\ res = NoRes
    /\ op = NoCall

\* res = a._process_key(key)
ProcessKey ==
    /\ op.name = "none"
    /\ res' = process_key(a, b.key)
    /\ op' = Call("process_key", b.key, <<>>, <<>>)
    /\ UNCHANGED <<a, b>>

NextKey == ProcessKey

SpecKey == InitKey /\ [][NextKey]_vars


(***************************************************************************)
(* The in-place rounding operations, step by step.  a is the network they  *)
(* work on; op is the call, with the cores and factors a had when it was   *)
(* made; b holds the position in the method: pc, the calls orthogonalize   *)
(* has still to make, the loop variable mu, rmax (0 for None) and the log  *)
(* of the steps taken so far.                                              *)
(***************************************************************************)
Locals(pc, calls, mu, rmax, log) ==
    [kind |-> "Locals", pc |-> pc, calls |-> calls, mu |-> mu, rmax |-> rmax, log |-> log]

InitRound ==
    /\ \E N \in 1..MaxN : \E fmt \in Formats(N) : \E k \in {1, N} :
         \E S \in {0, 1, MaxRank}, r \in {1, MaxRank} :
           a = Net(fmt, k, S, MaxSize, r, FALSE, 0)
    /\ b = Locals("idle", <<>>, 0, 0, <<>>)
    /\ res = NoRes
    /\ op = NoCall

\* a.round_tt(rmax=rmax) up to its first orthogonalization step
RoundTTCall ==
    /\ op.name = "none"
    /\ \E rmax \in 0..MaxRank :
         LET N == dim(a)
             calls == orthogonalize_calls(N, N)
         IN /\ a' = cp_to_tt_all(a)
            /\ b' = Locals(IF N = 1 THEN "done" ELSE "ortho", calls, N, rmax,
                           <<<<"cp_to_tt", 0>>>>)
    /\ op' = Call("round_tt", <<>>, a.cores, a.Us)
    /\ UNCHANGED res

\* a.round_tucker(rmax=rmax) up to its first orthogonalization step
RoundTuckerCall ==
    /\ op.name = "none"
    /\ \E rmax \in 0..MaxRank :
         LET N == dim(a)
             calls == orthogonalize_calls(N, Wrap(-1, N) + 1)
         IN /\ a' = cp_to_tt_all([a EXCEPT !.cores = [n \in 1..N |-> cp_to_tt(a.cores[n])]])
            /\ b' = Locals(IF calls = <<>> THEN "axis" ELSE "ortho", calls, N, rmax,
                           <<<<"cp_to_tt", 0>>>>)
    /\ op' = Call("round_tucker", <<>>, a.cores, a.Us)
    /\ UNCHANGED res

\* a.orthogonalize(mu) up to its first orthogonalization step
OrthogonalizeCall ==
    /\ op.name = "none"
    /\ \E mu \in 1..dim(a) :
         LET calls == orthogonalize_calls(dim(a), mu)
         IN /\ a' = cp_to_tt_all(a)
            /\ b' = Locals(IF calls = <<>> THEN "done" ELSE "ortho", calls, mu, 0,
                           <<<<"cp_to_tt", 0>>>>)
    /\ op' = Call("orthogonalize", <<>>, a.cores, a.Us)
    /\ UNCHANGED res

\* The next left_orthogonalize or right_orthogonalize call of orthogonalize.
OrthoStep ==
    /\ b.kind = "Locals" /\ b.pc = "ortho"
    /\ LET c == Head(b.calls)
       IN /\ a' = IF c[1] = "left" THEN left_orthogonalize(a, c[2])
                  ELSE right_orthogonalize(a, c[2])
          /\ b' = [b EXCEPT !.calls = Tail(@),
                            !.log = Append(@, c),
                            !.pc = IF Tail(b.calls) # <<>> THEN "ortho"
                                   ELSE IF op.name = "round_tt" THEN "trunc"
                                   ELSE IF op.name = "round_tucker" THEN "axis"
                                   ELSE "done"]
    /\ UNCHANGED <<res, op>>

\* One pass of round_tt's truncation loop.
TruncStep ==
    /\ b.kind = "Locals" /\ b.pc = "trunc"
    /\ \E k \in SvdRanks(right_unfolding(a.cores[b.mu].sh), b.rmax) :
         a' = round_tt_step(a, b.mu, k)
    /\ b' = [b EXCEPT !.mu = @ - 1,
                      !.log = Append(@, <<"trunc", b.mu>>),
                      !.pc = IF b.mu - 1 >= 2 THEN "trunc" ELSE "done"]
    /\ UNCHANGED <<res, op>>

\* One pass of round_tucker's loop, up to the right-orthogonalization.
AxisStep ==
    /\ b.kind = "Locals" /\ b.pc = "axis"
    /\ \E k \in SvdRanks(round_tucker_matrix(a, b.mu), b.rmax) :
         a' = round_tucker_step(a, b.mu, k)
    /\ b' = [b EXCEPT !.log = Append(@, <<"axis", b.mu>>),
                      !.pc = IF b.mu > 1 THEN "right" ELSE "done"]
    /\ UNCHANGED <<res, op>>

\* The end of a pass of round_tucker's loop: right_orthogonalize(mu).
RightStep ==
    /\ b.kind = "Locals" /\ b.pc = "right"
    /\ a' = right_orthogonalize(a, b.mu)
    /\ b' = [b EXCEPT !.mu = @ - 1,
                      !.log = Append(@, <<"right", b.mu>>),
                      !.pc = "axis"]
    /\ UNCHANGED <<res, op>>

NextRound ==
    \/ RoundTTCall
    \/ RoundTuckerCall
    \/ OrthogonalizeCall
    \/ OrthoStep
    \/ TruncStep
    \/ AxisStep
    \/ RightStep

SpecRound == InitRound /\ [][NextRound]_vars

(***************************************************************************)
(* The constructor called on a dense array, step by step.  a is the        *)
(* instance under construction (self), op the call: its options (0 stands  *)
(* for None) in key, the array handed in in data, the local list Us of     *)
(* line 84 in Us.  b holds the locals: pc, the local data, the axis n of   *)
(* the running ALS sweep, the errors of the sweeps made and the log of the *)
(* computation steps taken; calls, mu and rmax are those of the rounding   *)
(* method the constructor is in, whose steps are OrthoStep, TruncStep,     *)
(* AxisStep and RightStep above (op.name is then the method's name).       *)
(* tn.norm, tn.unfolding and tn.relative_error only produce numbers: the   *)
(* error of a sweep and the outcome of round's test are free choices.      *)
(***************************************************************************)
MaxIter == 3       \* max_iter is 0..MaxIter
MaxErr == 2        \* relative errors and tol are 0..MaxErr, in units of tol

\* A variant of full_rank_tt that never puts an identity on the left: every
\* core but the last takes the whole unfolding and passes its column count on.
full_rank_tt_wide(data) ==
    LET sh == data.sh
        N == Dim(data)
        RECURSIVE loop(_, _, _, _, _)
        loop(n, src, rows, cols, result) ==
            IF n > N - 1
            THEN Append(result, Reshape(src, <<rows \div sh[N], sh[N], 1>>))
            ELSE loop(n + 1, Eye(cols), cols * sh[n + 1], cols \div sh[n + 1],
                      Append(result, Reshape(src, <<rows \div sh[n], sh[n], cols>>)))
    IN loop(1, data, sh[1], Prod(sh) \div sh[1], <<>>)

\* _full_rank_tt(data) for data of at least one axis.  The matrix resh of the
\* source is src reshaped to rows x cols, src being data or an identity.  A
\* torch.reshape that does not keep the number of entries raises: the list
\* then ends with Bad.
full_rank_tt(data) ==
    LET sh == data.sh
        N == Dim(data)
        RECURSIVE loop(_, _, _, _, _)
        loop(n, src, rows, cols, result) ==
            IF n > N - 1
            THEN Append(result, Reshape(src, <<rows \div sh[N], sh[N], 1>>))
            ELSE IF rows < cols
            THEN IF (rows * sh[n + 1]) * (cols \div sh[n + 1]) # rows * cols
                 THEN Append(result, Bad)
                 ELSE loop(n + 1, src, rows * sh[n + 1], cols \div sh[n + 1],
                           Append(result, Reshape(Eye(rows), <<rows \div sh[n], sh[n], rows>>)))
            ELSE IF (cols * sh[n + 1]) * (cols \div sh[n + 1]) # cols * cols
                 THEN Append(result, Bad)
                 ELSE loop(n + 1, Eye(cols), cols * sh[n + 1], cols \div sh[n + 1],
                           Append(result, Reshape(src, <<rows \div sh[n], sh[n], cols>>)))
    IN loop(1, data, sh[1], Prod(sh) \div sh[1], <<>>)

InitDense ==
    /\ \E N \in 0..MaxN + 1 : \E sh \in [1..N -> {1, 2, MaxSize}] :
         b = [kind |-> "Locals", pc |-> "idle", calls |-> <<>>, mu |-> 0, rmax |-> 0,
              log |-> <<>>, n |-> 0, errors |-> <<>>, data |-> Gen(sh, 0)]
    /\ a = NoRes
    /\ res = NoRes
    /\ op = NoCall

\* Tensor(data, ranks_cp=, ranks_tucker=, ranks_tt=, eps=, max_iter=, tol=) up
\* to the choice of the strategy (lines 75-92 and 144).  max_iter and tol
\* vary for CP-ALS alone on an array whose axes all have size MaxSize, and
\* keep one value otherwise.  With ranks_cp alone, ranks_cp is at most the
\* smallest axis, so that HOSVD yields ranks_cp columns.  Arrays of MaxN + 1
\* axes are given without options (the full-rank expansion alone).
DenseCall ==
    /\ op.name = "none"
    /\ b.pc = "idle"
    /\ \E cp \in 0..MaxRank, tucker \in {0, 1, MaxRank}, tt \in 0..MaxRank, eps \in {0, 1},
          max_iter \in 0..MaxIter, tol \in 0..MaxErr :
         LET N == Dim(b.data)
             Us == [n \in 1..N |-> None]
             data == IF N = 0 THEN Reshape(b.data, <<1>>) ELSE b.data
         IN /\ \/ max_iter = MaxIter /\ tol = 1
               \/ /\ cp # 0 /\ tucker = 0 /\ eps = 0
                  /\ \A n \in 1..N : b.data.sh[n] = MaxSize
            /\ (cp # 0 /\ tucker = 0) => \A n \in 1..Dim(data) : cp <= data.sh[n]
            /\ N > MaxN => cp = 0 /\ tucker = 0 /\ tt = 0 /\ eps = 0
            /\ op' = Call("Tensor",
                          [ranks_cp |-> cp, ranks_tucker |-> tucker, ranks_tt |-> tt,
                           eps |-> eps, max_iter |-> max_iter, tol |-> tol],
                          b.data, Us)
            /\ a' = [kind |-> "Tensor", cores |-> <<>>, Us |-> Us, idxs |-> NoIdxs]
            /\ IF cp # 0 /\ tt # 0
               THEN /\ res' = Raise("ValueError")
                    /\ b' = [b EXCEPT !.data = data, !.pc = "end"]
               ELSE /\ res' = res
                    /\ b' = [b EXCEPT !.data = data,
                                      !.pc = IF cp # 0 /\ tucker = 0 THEN "cp_init" ELSE "full"]

\* self.cores = _full_rank_tt(data), at line 97 or at lines 145-146
FullRank ==
    /\ op.name = "Tensor"
    /\ b.pc = "full"
    /\ a' = [a EXCEPT !.cores = full_rank_tt(b.data),
                      !.Us = IF op.key.ranks_cp = 0
                             THEN [n \in 1..Dim(b.data) |-> None] ELSE @]
    /\ b' = [b EXCEPT !.log = Append(@, <<"full_rank_tt", 0>>),
                      !.pc = IF op.key.ranks_tucker # 0 THEN "round_tucker"
                             ELSE IF op.key.ranks_tt # 0 THEN "round_tt"
                             ELSE "check"]
    /\ UNCHANGED <<res, op>>

\* self.round_tucker(...), called at line 98, 148 or 971, up to its first
\* orthogonalization step.  On a 0-dim input with ranks_cp, self.Us is empty
\* and self.Us[mu] raises IndexError.
CtorRoundTucker ==
    /\ op.name = "Tensor"
    /\ b.pc = "round_tucker"
    /\ LET N == dim(a)
           calls == orthogonalize_calls(N, Wrap(-1, N) + 1)
       IN IF Len(a.Us) < N
          THEN /\ res' = Raise("IndexError")
               /\ b' = [b EXCEPT !.pc = "end", !.log = Append(@, <<"round_tucker", 0>>)]
               /\ UNCHANGED <<a, op>>
          ELSE /\ a' = cp_to_tt_all([a EXCEPT !.cores = [n \in 1..N |-> cp_to_tt(a.cores[n])]])
               /\ b' = [b EXCEPT !.pc = IF calls = <<>> THEN "axis" ELSE "ortho",
                                 !.calls = calls,
                                 !.mu = N,
                                 !.rmax = IF op.key.eps # 0 THEN 0 ELSE op.key.ranks_tucker,
                                 !.log = Append(@, <<"round_tucker", 0>>)]
               /\ op' = [op EXCEPT !.name = "round_tucker"]
               /\ UNCHANGED res

\* self.round_tt(...), called at line 150 or 967, up to its first
\* orthogonalization step.
CtorRoundTT ==
    /\ op.name = "Tensor"
    /\ b.pc = "round_tt"
    /\ LET N == dim(a)
       IN /\ a' = cp_to_tt_all(a)
          /\ b' = [b EXCEPT !.pc = IF N = 1 THEN "done" ELSE "ortho",
                            !.calls = orthogonalize_calls(N, N),
                            !.mu = N,
                            !.rmax = IF op.key.eps # 0 THEN 0 ELSE op.key.ranks_tt,
                            !.log = Append(@, <<"round_tt", 0>>)]
    /\ op' = [op EXCEPT !.name = "round_tt"]
    /\ UNCHANGED res

\* The return from round_tucker or round_tt into the constructor (lines 99,
\* 149, 151) or into round (lines 968-971, then back to line 163), where
\* round_tucker follows round_tt if the error reached is below eps.
RoundReturn ==
    /\ op.name \in {"round_tucker", "round_tt"}
    /\ b.pc = "done"
    /\ "ranks_cp" \in DOMAIN op.key
    /\ op' = [op EXCEPT !.name = "Tensor"]
    /\ \E below \in BOOLEAN :
         LET pc == IF op.key.eps # 0
                   THEN IF op.name = "round_tt" /\ below THEN "round_tucker" ELSE "end"
                   ELSE IF op.name = "round_tt" THEN "check"
                   ELSE IF op.key.ranks_cp # 0 THEN "cp_init"
                   ELSE IF op.key.ranks_tt # 0 THEN "round_tt"
                   ELSE "check"
         IN /\ b' = [b EXCEPT !.pc = pc]
            /\ res' = IF pc = "end" THEN a ELSE res
    /\ UNCHANGED a

\* The initial CP factors: random ones for the Tucker core (lines 99-101), or
\* the leading eigenvectors of each unfolding's Gram matrix (lines 103-112).
CPInit ==
    /\ op.name = "Tensor"
    /\ b.pc = "cp_init"
    /\ LET R == op.key.ranks_cp
           data == IF op.key.ranks_tucker # 0
                   THEN Opaque([n \in 1..dim(a) |-> a.cores[n].sh[2]])
                   ELSE b.data
       IN /\ a' = [a EXCEPT !.cores =
                     [n \in 1..Dim(data) |->
                        Opaque(<<data.sh[n],
                                 IF op.key.ranks_tucker # 0 THEN R ELSE Min2(data.sh[n], R)>>)]]
          /\ b' = [b EXCEPT !.data = data,
                            !.n = 1,
                            !.log = Append(@, <<"cp_init", 0>>),
                            !.pc = IF op.key.max_iter = 0 THEN "check" ELSE "als"]
    /\ UNCHANGED <<res, op>>

\* The update of the factor of axis n within a sweep (lines 119-128).
ALSAxis ==
    /\ op.name = "Tensor"
    /\ b.pc = "als"
    /\ a' = [a EXCEPT !.cores[b.n] = Opaque(<<b.data.sh[b.n], op.key.ranks_cp>>)]
    /\ b' = [b EXCEPT !.log = Append(@, <<"als", b.n>>),
                      !.n = IF b.n = dim(a) THEN 1 ELSE b.n + 1,
                      !.pc = IF b.n = dim(a) THEN "sweep" ELSE "als"]
    /\ UNCHANGED <<res, op>>

\* A variant of ALSSweepEnd that applies the convergence test from the first
\* sweep on, against an error of 0 before the first sweep.
ALSSweepEndFirst ==
    /\ op.name = "Tensor"
    /\ b.pc = "sweep"
    /\ \E e \in 0..MaxErr :
         LET errors == Append(b.errors, e)
             converged == (IF Len(errors) >= 2 THEN errors[Len(errors) - 1] ELSE 0) - e < op.key.tol
         IN b' = [b EXCEPT !.errors = errors,
                           !.pc = IF converged \/ Len(errors) = op.key.max_iter
                                  THEN "check" ELSE "als"]
    /\ UNCHANGED <<a, res, op>>

\* The end of a sweep (lines 129-143): the relative error e is recorded and
\* the loop is left if it has converged or max_iter sweeps are made.
ALSSweepEnd ==
    /\ op.name = "Tensor"
    /\ b.pc = "sweep"
    /\ \E e \in 0..MaxErr :
         LET errors == Append(b.errors, e)
             converged == Len(errors) >= 2 /\ errors[Len(errors) - 1] - e < op.key.tol
         IN b' = [b EXCEPT !.errors = errors,
                           !.pc = IF converged \/ Len(errors) = op.key.max_iter
                                  THEN "check" ELSE "als"]
    /\ UNCHANGED <<a, res, op>>

\* Lines 151-163: the local list Us is read for every core (it is empty for a
\* 0-dim input), the index labels are set, and eps is looked at: with a rank
\* option it is rejected, without one self.round(eps) starts with round_tt.
Finish ==
    /\ op.name = "Tensor"
    /\ b.pc = "check"
    /\ IF Len(op.Us) < dim(a)
       THEN /\ res' = Raise("IndexError")
            /\ b' = [b EXCEPT !.pc = "end"]
            /\ UNCHANGED a
       ELSE LET self == [a EXCEPT !.idxs = [n \in 1..dim(a) |-> Arange(shape(a)[n])]]
                ranks == op.key.ranks_cp # 0 \/ op.key.ranks_tucker # 0 \/ op.key.ranks_tt # 0
            IN /\ a' = self
               /\ res' = IF op.key.eps = 0 THEN self
                         ELSE IF ranks THEN Raise("ValueError")
                         ELSE res
               /\ b' = [b EXCEPT !.pc = IF op.key.eps # 0 /\ ~ranks THEN "round_tt" ELSE "end"]
    /\ UNCHANGED op

NextDense ==
    \/ DenseCall
    \/ FullRank
    \/ CtorRoundTucker
    \/ CtorRoundTT
    \/ OrthoStep
    \/ TruncStep
    \/ AxisStep
    \/ RightStep
    \/ RoundReturn
    \/ CPInit
    \/ ALSAxis
    \/ ALSSweepEnd
    \/ Finish

SpecDense == InitDense /\ [][NextDense]_vars

\* The constructor runs on one thread, without suspension: once the CP factors
\* are to be initialized, the step that can be taken (the initialization, the
\* next update of a sweep, the end of a sweep, the final checks) is taken.
FairDense == SpecDense /\ WF_vars(CPInit \/ ALSAxis \/ ALSSweepEnd \/ Finish)

(***************************************************************************)
(* Several instances at once.  The lists of a program are objects: a.lists *)
(* holds their contents, and an instance (an entry of a.inst) refers to    *)
(* its list of cores, its list of factors and its list of index labels by  *)
(* position in a.lists.  Two instances that refer to the same list see     *)
(* each other's assignments to its elements.  b counts the calls made, op  *)
(* is the last call (self is its target, data and Us the cores and factors *)
(* the target had before, arg a further argument) and res its outcome.     *)
(* Arithmetic, indexing, repeat and assignment are applied to the          *)
(* instances that are Small: known entry by entry (not the result of a QR  *)
(* factorization), with ranks up to MaxRank and sizes up to MaxSize.       *)
(***************************************************************************)
MaxOps == 2        \* at most MaxOps calls are made on the initial instance

\* Instance i of heap h as a network: self.cores, self.Us and self.idxs.
View(h, i) ==
    [kind |-> "Tensor",
     cores |-> h.lists[h.inst[i].cores],
     Us |-> h.lists[h.inst[i].Us],
     idxs |-> h.lists[h.inst[i].idxs]]

\* Tensor.__setitem__ for a key of integers and slices; value is a number or
\* [kind |-> "Dense", arr |-> a dense array of at least one axis].  The result
\* is what self has become, or the exception raised (self is then unchanged).
\* ax holds, per axis, the two cores built by the loop and the exception it
\* raises there, if any; line 679 is result = self - minus + plus, each
\* intermediate network being named as the one element of a set.
setitem(t, key, value) ==
    LET pk == process_key(t, key)
        scalar == value.kind = "Number"
        v == IF scalar THEN <<>> ELSE full_rank_tt(value.arr)
        ax == [i \in 1..Len(pk.key) |->
                 LET k == pk.key[i]
                     sl == IF k.t = "int" THEN KSlice(<<k.v[1]>>, <<k.v[1] + 1>>, <<>>) ELSE k
                     core == t.cores[i]
                     d == Dim(core) - 1
                     I == shape(t)[i]
                     inchunk == SliceSel(sl, core.sh[d])
                     inadd == SliceSel(sl, I)
                     subtract_core ==
                         [sh |-> core.sh,
                          e |-> [ix \in Ix(core.sh) |->
                                   IF \E j \in 1..Len(inchunk) : inchunk[j] = ix[d] - 1
                                   THEN core.e[ix] ELSE 0]]
                     ash == IF scalar
                            THEN IF Dim(core) = 3 THEN <<1, I, 1>> ELSE <<I, 1>>
                            ELSE <<v[i].sh[1], I, v[i].sh[3]>>
                     add_core ==
                         [sh |-> ash,
                          e |-> [ix \in Ix(ash) |->
                                   IF \E j \in 1..Len(inadd) : inadd[j] = ix[Len(ash) - 1] - 1
                                   THEN IF scalar THEN (IF i = 1 THEN value.val ELSE 1)
                                        ELSE LET j == CHOOSE m \in 1..Len(inadd) :
                                                        inadd[m] = ix[Len(ash) - 1] - 1
                                             IN v[i].e[<<ix[1],
                                                         IF v[i].sh[2] = 1 THEN 1 ELSE j,
                                                         ix[3]>>]
                                   ELSE 0]]
                     err == IF scalar THEN "ok"
                            ELSE IF i > Dim(value.arr) THEN "IndexError"
                            ELSE IF (IF Dim(core) = 3 THEN Len(inchunk) ELSE core.sh[2])
                                    # value.arr.sh[i]
                            THEN "ValueError"
                            ELSE IF Dim(core) = 2 THEN "RuntimeError"
                            ELSE IF Len(inadd) # v[i].sh[2] /\ v[i].sh[2] # 1
                            THEN "RuntimeError"
                            ELSE "ok"
                 IN [err |-> err,
                     subtract_core |-> subtract_core,
                     add_core |-> IF err = "ok" THEN add_core ELSE Bad]]
    IN IF pk.kind # "ok" THEN Raise(pk.kind)
       ELSE CHOOSE out \in
              {IF \E i \in DOMAIN x : x[i].err # "ok"
               THEN Raise(x[CHOOSE i \in DOMAIN x :
                              x[i].err # "ok" /\ \A j \in 1..i - 1 : x[j].err = "ok"].err)
               ELSE CHOOSE self \in
                      {IF ~IsTensor(result) THEN result
                       ELSE TensorInit(result.cores, result.Us, t.idxs) :
                         result \in
                           {IF ~IsTensor(diff) THEN diff
                            ELSE IF ~IsTensor(plus) THEN plus
                            ELSE add(diff, plus) :
                              diff \in
                                {IF IsTensor(neg) THEN add(t, neg) ELSE neg :
                                   neg \in
                                     {IF IsTensor(minus) THEN mul(minus, Number(-1)) ELSE minus :
                                        minus \in
                                          {NewTensor([i \in DOMAIN x |-> x[i].subtract_core],
                                                     NoUs, NoIdxs)}}},
                              plus \in {NewTensor([i \in DOMAIN x |-> x[i].add_core],
                                                  NoUs, NoIdxs)}}} : TRUE :
                 x \in {ax}} : TRUE

\* One instance, built by the constructor from a caller's list of cores and
\* list of factors: t = Tensor(cores, Us).
InitObjects ==
    /\ \E N \in 1..MaxN : \E fmt \in Formats(N) : \E S \in {0, MaxRank} :
         LET t == Net(fmt, 1, S, MaxSize, MaxRank, FALSE, 0)
         IN a = [lists |-> <<t.cores, t.Us, t.idxs>>,
                 inst |-> <<[cores |-> 1, Us |-> 2, idxs |-> 3]>>]
    /\ b = 0
    /\ res = NoRes
    /\ op = NoCall

\* u = Tensor(t.cores, t.Us), the constructor called on the lists of instance
\* i: lines 73 and 85 store the lists themselves, line 158 makes new labels.
NewFromLists ==
    /\ b < MaxOps
    /\ \E i \in 1..Len(a.inst) : \E t \in {View(a, i)} :
       \E r \in {TensorInit(t.cores, t.Us, NoIdxs)} :
         /\ res' = r
         /\ op' = [name |-> "Tensor", key |-> <<>>, data |-> t.cores, Us |-> t.Us,
                   self |-> i, arg |-> <<>>]
         /\ a' = IF ~IsTensor(r) THEN a
                 ELSE [lists |-> Append(a.lists, r.idxs),
                       inst |-> Append(a.inst, [cores |-> a.inst[i].cores,
                                                Us |-> a.inst[i].Us,
                                                idxs |-> Len(a.lists) + 1])]
    /\ b' = b + 1

\* u = t.clone(): new lists of cloned cores and factors; the list of index
\* labels is handed on as it is (line 1085).
CloneOf ==
    /\ b < MaxOps
    /\ \E i \in 1..Len(a.inst) : \E t \in {View(a, i)} : \E r \in {clone(t)} :
         /\ res' = r
         /\ op' = [name |-> "clone", key |-> <<>>, data |-> t.cores, Us |-> t.Us,
                   self |-> i, arg |-> <<>>]
         /\ a' = IF ~IsTensor(r) THEN a
                 ELSE [lists |-> a.lists \o <<r.cores, r.Us>>,
                       inst |-> Append(a.inst, [cores |-> Len(a.lists) + 1,
                                                Us |-> Len(a.lists) + 2,
                                                idxs |-> a.inst[i].idxs])]
    /\ b' = b + 1

\* t + u and t * u for instances i and j, or for instance i and the number 2
\* (j = 0): the result has lists of its own.
Arithmetic ==
    /\ b < MaxOps
    /\ \E i \in 1..Len(a.inst), j \in 0..Len(a.inst), f \in {"add", "mul"} :
       \E t \in {View(a, i)}, u \in {IF j = 0 THEN Number(2) ELSE View(a, j)} :
         /\ \A x \in {t} \cup (IF j = 0 THEN {} ELSE {u}) : \A n \in 1..dim(x) :
              /\ x.cores[n].e # <<>>
              /\ IsNone(x.Us[n]) \/ x.Us[n].e # <<>>
              /\ x.cores[n].sh[Dim(x.cores[n])] <= MaxRank
              /\ shape(x)[n] <= MaxSize
         /\ \E r \in {IF f = "add" THEN add(t, u) ELSE mul(t, u)} :
              /\ res' = r
              /\ op' = [name |-> f, key |-> <<>>, data |-> t.cores, Us |-> t.Us,
                        self |-> i, arg |-> j]
              /\ a' = IF ~IsTensor(r) THEN a
                      ELSE [lists |-> a.lists \o <<r.cores, r.Us, r.idxs>>,
                            inst |-> Append(a.inst, [cores |-> Len(a.lists) + 1,
                                                     Us |-> Len(a.lists) + 2,
                                                     idxs |-> Len(a.lists) + 3])]
    /\ b' = b + 1

\* t[key] for instance i.  key is a tuple of integers and slices, or a mask
\* network, given here by its one accepted string s (tn.sum and
\* tn.accepted_inputs are not part of this file).  For a mask, lines 485-486
\* take the labels of each axis with long(), which is the labels' own tensor
\* as they are integers already, and set every label above 1 to 1 in it; the
\* positions whose label is s[n] make the slice (or the integer) of axis n, and
\* idx[0] raises IndexError on the first axis that has none, as self.idxs[n]
\* does on an axis without labels.  self[slicing] then gets a list: a list of
\* integers only is one index array.
ItemOf ==
    /\ b < MaxOps
    /\ \E i \in 1..Len(a.inst) : \E t \in {View(a, i)} :
         /\ \A n \in 1..dim(t) :
              /\ t.cores[n].e # <<>>
              /\ IsNone(t.Us[n]) \/ t.Us[n].e # <<>>
              /\ t.cores[n].sh[Dim(t.cores[n])] <= MaxRank
              /\ shape(t)[n] <= MaxSize
         /\ \E mask \in BOOLEAN :
            \E key \in IF mask
                       THEN {[n \in 1..dim(t) |-> KInt(s[n])] : s \in [1..dim(t) -> {0, 1}]}
                       ELSE {[n \in 1..dim(t) |-> k[n]] :
                               k \in [1..dim(t) -> {KInt(-1), KFull, KSlice(<<1>>, <<>>, <<>>)}]} :
              LET N == dim(t)
                  L == Min2(N, Len(t.idxs))
                  idx == [n \in 1..L |-> [m \in 1..Len(t.idxs[n]) |-> Min2(t.idxs[n][m], 1)]]
                  pos == [n \in 1..L |->
                            SelectSeq([m \in 1..Len(idx[n]) |-> m - 1],
                                      LAMBDA p : idx[n][p + 1] = key[n].v[1])]
                  empty == {n \in 1..N : n > L \/ pos[n] = <<>>}
                  stop == IF empty = {} THEN N ELSE CHOOSE n \in empty : \A m \in empty : n <= m
                  slicing == IF ~mask \/ empty # {} THEN key
                             ELSE IF \A n \in 1..N : Len(pos[n]) = 1
                             THEN <<KIndex([n \in 1..N |-> pos[n][1]])>>
                             ELSE [n \in 1..N |->
                                     IF Len(pos[n]) = 1 THEN KInt(pos[n][1])
                                     ELSE KSlice(<<pos[n][1]>>, <<pos[n][Len(pos[n])] + 1>>,
                                                 <<>>)]
                  lists == IF ~mask THEN a.lists
                           ELSE [a.lists EXCEPT ![a.inst[i].idxs] =
                                   [n \in 1..Len(@) |->
                                      IF n <= stop /\ n <= L THEN idx[n] ELSE @[n]]]
              IN \E sl \in {slicing} :
                 \E r \in {IF mask /\ empty # {} THEN Raise("IndexError") ELSE getitem(t, sl)} :
                   /\ res' = r
                   /\ op' = [name |-> IF mask THEN "getitem_mask" ELSE "getitem", key |-> key,
                             data |-> t.cores, Us |-> t.Us, self |-> i, arg |-> <<>>]
                   /\ a' = IF ~IsTensor(r) THEN [a EXCEPT !.lists = lists]
                           ELSE [lists |-> lists \o <<r.cores, r.Us, r.idxs>>,
                                 inst |-> Append(a.inst, [cores |-> Len(a.lists) + 1,
                                                          Us |-> Len(a.lists) + 2,
                                                          idxs |-> Len(a.lists) + 3])]
    /\ b' = b + 1

\* u = t.repeat(*rep) for instance i, with as many entries as t has axes or
\* one more: the clone's lists of cores and factors are extended and changed,
\* its list of index labels is the one of t.
RepeatOf ==
    /\ b < MaxOps
    /\ \E i \in 1..Len(a.inst) : \E t \in {View(a, i)} :
         /\ \A n \in 1..dim(t) :
              /\ t.cores[n].e # <<>>
              /\ IsNone(t.Us[n]) \/ t.Us[n].e # <<>>
              /\ t.cores[n].sh[Dim(t.cores[n])] <= MaxRank
              /\ shape(t)[n] <= MaxSize
         /\ \E extra \in 0..1 : \E rep \in [1..dim(t) + extra -> {1, 2}] :
            \E r \in {repeat(t, rep)} :
              /\ res' = r
              /\ op' = [name |-> "repeat", key |-> rep, data |-> t.cores, Us |-> t.Us,
                        self |-> i, arg |-> <<>>]
              /\ a' = [lists |-> a.lists \o <<r.cores, r.Us>>,
                       inst |-> Append(a.inst, [cores |-> Len(a.lists) + 1,
                                                Us |-> Len(a.lists) + 2,
                                                idxs |-> a.inst[i].idxs])]
    /\ b' = b + 1

\* t[key] = value for instance i: on success line 680 gives the instance the
\* lists of the result, and keeps its list of index labels.
SetItem ==
    /\ b < MaxOps
    /\ \E i \in 1..Len(a.inst) : \E t \in {View(a, i)} :
         /\ \A n \in 1..dim(t) :
              /\ t.cores[n].e # <<>>
              /\ IsNone(t.Us[n]) \/ t.Us[n].e # <<>>
              /\ t.cores[n].sh[Dim(t.cores[n])] <= MaxRank
              /\ shape(t)[n] <= MaxSize
         /\ \E key \in {[n \in 1..dim(t) |-> k[n]] :
                          k \in [1..dim(t) ->
                                   {KInt(0), KInt(-1), KSlice(<<1>>, <<>>, <<>>)}]},
               value \in {Number(5)}
                         \cup {[kind |-> "Dense", arr |-> Gen(sh, 3)] :
                                 sh \in [1..dim(t) -> {1, MaxSize - 1}]} :
            \E r \in {setitem(t, key, value)} :
              /\ res' = r
              /\ op' = [name |-> "setitem", key |-> key, data |-> t.cores, Us |-> t.Us,
                        self |-> i, arg |-> value]
              /\ a' = IF ~IsTensor(r) THEN a
                      ELSE [lists |-> a.lists \o <<r.cores, r.Us>>,
                            inst |-> [a.inst EXCEPT ![i] = [cores |-> Len(a.lists) + 1,
                                                            Us |-> Len(a.lists) + 2,
                                                            idxs |-> @.idxs]]]
    /\ b' = b + 1

\* t.orthogonalize(mu) for instance i: _cp_to_tt() and every left and right
\* orthogonalization assign to the elements of self.cores and self.Us.
Orthogonalize ==
    /\ b < MaxOps
    /\ \E i \in 1..Len(a.inst) : \E t \in {View(a, i)} : \E mu \in 1..dim(t) :
         LET RECURSIVE run(_, _)
             run(u, calls) ==
                 IF calls = <<>> THEN u
                 ELSE run(IF Head(calls)[1] = "left"
                          THEN left_orthogonalize(u, Head(calls)[2])
                          ELSE right_orthogonalize(u, Head(calls)[2]),
                          Tail(calls))
         IN \E r \in {run(cp_to_tt_all(t), orthogonalize_calls(dim(t), mu))} :
              /\ res' = r
              /\ op' = [name |-> "orthogonalize", key |-> <<mu>>, data |-> t.cores,
                        Us |-> t.Us, self |-> i, arg |-> <<>>]
              /\ a' = [a EXCEPT !.lists[a.inst[i].cores] = r.cores,
                                !.lists[a.inst[i].Us] = r.Us]
    /\ b' = b + 1

NextObjects ==
    \/ NewFromLists
    \/ CloneOf
    \/ Arithmetic
    \/ ItemOf
    \/ RepeatOf
    \/ SetItem
    \/ Orthogonalize

SpecObjects == InitObjects /\ [][NextObjects]_vars

(***************************************************************************)
(* Properties of a + b and a * b (specification SpecArith).                *)
(***************************************************************************)
DenseAdd(A, B) == [sh |-> A.sh, e |-> [ix \in Ix(A.sh) |-> A.e[ix] + B.e[ix]]]

DensePlus(A, c) == [sh |-> A.sh, e |-> [ix \in Ix(A.sh) |-> A.e[ix] + c]]

\* The last call was a + b or a * b on two networks.
OnNetworks == op.name \in {"add", "mul"} /\ IsTensor(b)

SameShape == IsTensor(b) /\ shape(a) = shape(b)

IsCP(t, n) == Len(t.cores[n].sh) = 2

HasU(t, n) == t.Us[n].sh # <<-2>>

Multiple(x, y) == x % y = 0 \/ y % x = 0

\* C2: decompress(a + b) = decompress(a) + decompress(b) for networks of one
\* shape, and decompress(a + c) = decompress(a) + c for a number c, for every
\* number of axes and every mix of formats.
C2_AddIsSum ==
    op.name = "add" =>
      /\ SameShape => IsTensor(res) /\ torch(res) = DenseAdd(torch(a), torch(b))
      /\ ~IsTensor(b) => IsTensor(res) /\ torch(res) = DensePlus(torch(a), b.val)

\* C3 as stated: the output core of axis n is a CP core exactly when both
\* operand cores are CP cores without Tucker factors.
C3_CPOnlyWithoutFactors ==
    OnNetworks /\ IsTensor(res) /\ dim(a) = dim(b) =>
      \A n \in 1..dim(res) :
        IsCP(res, n) <=> (IsCP(a, n) /\ IsCP(b, n) /\ ~HasU(a, n) /\ ~HasU(b, n))

\* C3 as amended: the output core of axis n of a + b and of a * b is a CP core
\* exactly when both operand cores of axis n are CP cores, with or without
\* Tucker factors, and a TT core otherwise.
C3_FormatRule ==
    OnNetworks /\ IsTensor(res) /\ dim(a) = dim(b) =>
      \A n \in 1..dim(res) :
        /\ IsCP(res, n) <=> (IsCP(a, n) /\ IsCP(b, n))
        /\ ~IsCP(res, n) => Len(res.cores[n].sh) = 3

\* C3 witness: a result with a CP core made of two CP cores with Tucker factors
\* next to a TT core made of a CP core and a TT core.
C3_Witness ==
    /\ OnNetworks /\ IsTensor(res) /\ dim(a) = dim(b)
    /\ \E n, m \in 1..dim(res) :
         /\ IsCP(a, n) /\ IsCP(b, n) /\ HasU(a, n) /\ HasU(b, n) /\ IsCP(res, n)
         /\ IsCP(a, m) /\ ~IsCP(b, m) /\ ~IsCP(res, m)

\* C4: for every number of axes N >= 1, every rank of a + b (interior bonds, CP
\* ranks, Tucker ranks where both operands have a factor) is the sum of the
\* operands' ranks, the outer bond of a TT first core and of a TT last core
\* being 1.
C4_RanksAdd ==
    op.name = "add" /\ SameShape =>
      /\ IsTensor(res)
      /\ \A k \in 2..dim(a) : ranks_tt(res)[k] = ranks_tt(a)[k] + ranks_tt(b)[k]
      /\ ranks_tt(res)[1] = IF IsCP(res, 1) THEN ranks_tt(a)[1] + ranks_tt(b)[1] ELSE 1
      /\ ranks_tt(res)[dim(a) + 1] =
           IF IsCP(res, dim(a)) THEN ranks_tt(a)[dim(a) + 1] + ranks_tt(b)[dim(a) + 1] ELSE 1
      /\ \A n \in 1..dim(a) :
           HasU(a, n) /\ HasU(b, n) =>
             /\ HasU(res, n)
             /\ ranks_tucker(res)[n] = ranks_tucker(a)[n] + ranks_tucker(b)[n]

\* C5: a + b and a * b raise when the numbers of axes differ or when on some
\* axis neither size is a multiple of the other.
C5_MismatchRaises ==
    OnNetworks /\ (dim(a) # dim(b)
                   \/ \E n \in 1..dim(a) : ~Multiple(shape(a)[n], shape(b)[n]))
      => ~IsTensor(res)

\* C6: a + b and a * b succeed when on every axis one size is a multiple of the
\* other, and the result has the axis-wise maximum shape.
C6_BroadcastSucceeds ==
    OnNetworks /\ dim(a) = dim(b)
               /\ (\A n \in 1..dim(a) : Multiple(shape(a)[n], shape(b)[n]))
      => /\ IsTensor(res)
         /\ shape(res) = [n \in 1..dim(a) |-> Max2(shape(a)[n], shape(b)[n])]

\* C7: axis n of a * b has a Tucker factor exactly when both operands have one
\* and the product of their Tucker ranks is below the logical size; its rank is
\* then that product, and otherwise the core's middle size is the logical size.
C7_FactorSpaceRule ==
    op.name = "mul" /\ SameShape =>
      /\ IsTensor(res)
      /\ \A n \in 1..dim(a) :
           IF HasU(a, n) /\ HasU(b, n)
              /\ ranks_tucker(a)[n] * ranks_tucker(b)[n] < shape(a)[n]
           THEN /\ HasU(res, n)
                /\ ranks_tucker(res)[n] = ranks_tucker(a)[n] * ranks_tucker(b)[n]
                /\ res.Us[n].sh[1] = shape(a)[n]
           ELSE /\ ~HasU(res, n)
                /\ ranks_tucker(res)[n] = shape(a)[n]

(***************************************************************************)
(* Properties of the constructor (specification SpecCtor).                 *)
(***************************************************************************)
LastSize(c) == c.sh[Len(c.sh)]

MiddleSize(c) == c.sh[Len(c.sh) - 1]

BadDims(data) == \E n \in 1..Len(data) : Len(data[n].sh) < 2 \/ Len(data[n].sh) > 3

\* Core n+1 does not continue core n: its left rank (3 indices) or its rank
\* (2 indices) is not the last size of core n.
PairMismatch(data, n) ==
    \/ Len(data[n + 1].sh) = 3 /\ LastSize(data[n]) # data[n + 1].sh[1]
    \/ Len(data[n + 1].sh) = 2 /\ LastSize(data[n]) # data[n + 1].sh[2]

Unsound(data) == BadDims(data) \/ \E n \in 1..Len(data) - 1 : PairMismatch(data, n)

\* C8: the constructor raises ValueError on a list with a core that has not 2 or
\* 3 dimensions or with an adjacent pair whose ranks differ; any other list is
\* accepted unchanged, so an accepted network has matching ranks on every pair.
C8_ListValidated ==
    op.name = "init" =>
      /\ Unsound(op.data) => res.kind = "ValueError"
      /\ ~Unsound(op.data) /\ op.Us = NoUs => IsTensor(res) /\ res.cores = op.data
      /\ IsTensor(res) => \A n \in 1..dim(res) - 1 : ~PairMismatch(res.cores, n)

\* C8 witness: an accepted list in which a CP core follows a TT core.
C8_Witness ==
    /\ op.name = "init" /\ IsTensor(res) /\ res.cores = op.data
    /\ \E n \in 1..dim(res) - 1 : ~IsCP(res, n) /\ IsCP(res, n + 1) /\ LastSize(res.cores[n]) > 1

\* C9 as stated: in an accepted network all CP cores have one and the same rank,
\* adjacent or not.
C9_AllCPShareRank ==
    op.name = "init" /\ IsTensor(res) =>
      \A n, m \in 1..dim(res) :
        IsCP(res, n) /\ IsCP(res, m) => res.cores[n].sh[2] = res.cores[m].sh[2]

\* C9 as amended: in an accepted network the rank of a CP core is the last size
\* of the core before it, so the CP cores of a run of adjacent CP cores have one
\* rank; CP cores separated by TT cores may differ.
C9_AdjacentCPShareRank ==
    op.name = "init" /\ IsTensor(res) =>
      /\ \A n \in 2..dim(res) : IsCP(res, n) => res.cores[n].sh[2] = LastSize(res.cores[n - 1])
      /\ \A n, m \in 1..dim(res) :
           (n <= m /\ \A j \in n..m : IsCP(res, j)) => res.cores[n].sh[2] = res.cores[m].sh[2]

\* C9 witness: an accepted network with two adjacent CP cores of rank above 1.
C9_Witness ==
    /\ op.name = "init" /\ IsTensor(res)
    /\ \E n \in 1..dim(res) - 1 : IsCP(res, n) /\ IsCP(res, n + 1) /\ res.cores[n].sh[2] > 1

\* The factor given for axis n is no matrix, or its column count is not the
\* middle size of core n.
FactorBad(data, Us, n) ==
    /\ Us[n].sh # <<-2>>
    /\ Len(Us[n].sh) # 2 \/ Us[n].sh[2] # MiddleSize(data[n])

\* C10: the constructor rejects a factor that is no matrix or whose column count
\* differs from the middle size of its core, for TT and CP cores alike; in an
\* accepted network every factor has as many columns as its core has middle
\* entries.
C10_FactorsValidated ==
    op.name = "init" /\ op.Us # NoUs /\ ~Unsound(op.data) =>
      /\ (\E n \in 1..Len(op.data) : n <= Len(op.Us) /\ FactorBad(op.data, op.Us, n))
           => ~IsTensor(res)
      /\ IsTensor(res) =>
           \A n \in 1..dim(res) : HasU(res, n) =>
             Len(res.Us[n].sh) = 2 /\ res.Us[n].sh[2] = MiddleSize(res.cores[n])

\* C10 witness: a matrix with a column too few, given for a CP core, is
\* rejected.
C10_Witness ==
    /\ op.name = "init" /\ op.Us # NoUs /\ ~Unsound(op.data) /\ res.kind = "AssertionError"
    /\ \E n \in 1..Len(op.data) :
         /\ n <= Len(op.Us) /\ Len(op.data[n].sh) = 2 /\ Len(op.Us[n].sh) = 2
         /\ op.Us[n].sh[2] # MiddleSize(op.data[n])

(***************************************************************************)
(* Properties of indexing (specification SpecIndex).  NumPy's indexing of  *)
(* a dense array is the reference.                                         *)
(***************************************************************************)
Consumes(k) == k.t \in {"int", "slice", "index"}

\* The key with its ellipsis, or its missing tail, made full slices.
NpExpand(N, key) ==
    LET c == Cardinality({i \in 1..Len(key) : Consumes(key[i])})
        ells == {i \in 1..Len(key) : key[i].t = "ellipsis"}
        i == CHOOSE j \in ells : TRUE
    IN IF ells = {} THEN key \o [j \in 1..(N - c) |-> KFull]
       ELSE SubSeq(key, 1, i - 1) \o [j \in 1..(N - c) |-> KFull] \o SubSeq(key, i + 1, Len(key))

\* The axis (1-based) that entry i of an expanded key indexes.
AxisOf(k, i) == Cardinality({j \in 1..i : Consumes(k[j])})

\* A valid key: at most one ellipsis, no more indexing entries than axes, every
\* integer a position of its axis, the index arrays next to each other and of
\* one length.
ValidKey(sh, key) ==
    /\ Cardinality({i \in 1..Len(key) : key[i].t = "ellipsis"}) <= 1
    /\ Cardinality({i \in 1..Len(key) : Consumes(key[i])}) <= Len(sh)
    /\ LET k == NpExpand(Len(sh), key)
           idx == {i \in 1..Len(k) : k[i].t = "index"}
       IN /\ \A i \in 1..Len(k) : \A j \in 1..Len(k[i].v) : InRange(k[i].v[j], sh[AxisOf(k, i)])
          /\ \A i, j \in idx : Len(k[i].v) = Len(k[j].v)
          /\ \A i, j \in idx : \A m \in i..j : m \in idx

\* Basic indexing (integers, slices with a positive step, None) from axis d on.
RECURSIVE BasicGet(_, _, _)
BasicGet(A, k, d) ==
    IF k = <<>> THEN A
    ELSE IF Head(k).t = "int"
    THEN BasicGet(Select(A, d, Wrap(Head(k).v[1], A.sh[d])), Tail(k), d)
    ELSE IF Head(k).t = "slice"
    THEN BasicGet(Take(A, d, SliceSel(Head(k), A.sh[d])), Tail(k), d + 1)
    ELSE BasicGet(Reshape(A, Ins(A.sh, d, 1)), Tail(k), d + 1)

\* The arrays Bs[1], ..., Bs[P] stacked along a new axis d.
Stack(Bs, d) ==
    [sh |-> Ins(Bs[1].sh, d, Len(Bs)),
     e |-> [ix \in Ix(Ins(Bs[1].sh, d, Len(Bs))) |-> Bs[ix[d]].e[Drop(ix, d)]]]

\* A[key] in NumPy.  With an index array in the key, integers are index arrays
\* too; the axis of the index arrays takes the place of the first of them when
\* they are next to each other, and comes first otherwise.
NpGet(A, key) ==
    LET k == NpExpand(Len(A.sh), key)
        idx == {i \in 1..Len(k) : k[i].t = "index"}
        adv == {i \in 1..Len(k) : k[i].t \in {"int", "index"}}
        first == CHOOSE i \in adv : \A j \in adv : i <= j
        last == CHOOSE i \in adv : \A j \in adv : j <= i
        d == IF \A i \in first..last : i \in adv
             THEN 1 + Cardinality({i \in 1..first : k[i].t \in {"slice", "none"}})
             ELSE 1
        P == Len(k[CHOOSE i \in idx : TRUE].v)
        pick(p) == [i \in 1..Len(k) |-> IF k[i].t = "index" THEN KInt(k[i].v[p]) ELSE k[i]]
    IN IF idx = {} THEN BasicGet(A, k, 1)
       ELSE Stack([p \in 1..P |-> BasicGet(A, pick(p), 1)], d)

\* The dense array an outcome stands for.
DenseOf(r) ==
    IF r.kind = "Number" THEN [sh |-> <<>>, e |-> [ix \in {<<>>} |-> r.val]] ELSE torch(r)

\* C1: for every valid key of integers, slices, None, one ellipsis and contiguous
\* index arrays of one length, decompress(a[key]) is A[key] as NumPy computes it,
\* in shape and entry for entry, A being decompress(a).
C1_GetItemIsNumPy ==
    op.name = "getitem" /\ ValidKey(shape(a), op.key) =>
      /\ res.kind \in {"Tensor", "Number"}
      /\ DenseOf(res) = NpGet(torch(a), op.key)

(***************************************************************************)
(* Properties of key normalisation (specification SpecKey).                *)
(***************************************************************************)
Ellipses(key) == Cardinality({i \in 1..Len(key) : key[i].t = "ellipsis"})

\* The entries that index an axis: all but None and the ellipsis.
Indexing(key) == Cardinality({i \in 1..Len(key) : Consumes(key[i])})

\* C15: _process_key raises IndexError when the key has more than one ellipsis
\* or more axis-indexing entries than the network has axes; otherwise it returns
\* a key with exactly dim() entries other than None, in which the ellipsis is
\* replaced by the needed number of full slices (possibly none), the missing
\* trailing axes are full slices and the given entries keep their order.
C15_KeyNormalised ==
    op.name = "process_key" =>
      IF Ellipses(op.key) > 1 \/ Indexing(op.key) > dim(a)
      THEN res.kind = "IndexError"
      ELSE /\ res.kind = "ok"
           /\ Cardinality({i \in 1..Len(res.key) : res.key[i].t # "none"}) = dim(a)
           /\ Ellipses(res.key) = 0
           /\ res.key = NpExpand(dim(a), op.key)

\* C15 witness: an ellipsis followed by an integer, with a None in the key, is
\* expanded to one full slice or more in front of the integer.
C15_Witness ==
    /\ op.name = "process_key" /\ res.kind = "ok"
    /\ Ellipses(op.key) = 1 /\ Len(res.key) >= Len(op.key)
    /\ \E i \in 1..Len(op.key) : op.key[i].t = "none"
    /\ op.key[1].t = "ellipsis" /\ res.key[1] = KFull /\ res.key[Len(res.key)].t = "int"

(***************************************************************************)
(* Properties of index arrays in a key (specification SpecFancy).          *)
(***************************************************************************)
\* The key has at most one ellipsis, no more indexing entries than axes, and
\* every integer in it is a position of its axis.
KeyFits(sh, key) ==
    /\ Ellipses(key) <= 1
    /\ Indexing(key) <= Len(sh)
    /\ LET k == NpExpand(Len(sh), key)
       IN \A i \in 1..Len(k) : \A j \in 1..Len(k[i].v) : InRange(k[i].v[j], sh[AxisOf(k, i)])

IndexArrays(key) == {i \in 1..Len(key) : key[i].t = "index"}

\* Some entry between two index arrays is no index array.
NonContiguous(key) ==
    \E i, j \in IndexArrays(key) : \E m \in i..j : m \notin IndexArrays(key)

DifferentLengths(key) ==
    \E i, j \in IndexArrays(key) : Len(key[i].v) # Len(key[j].v)

\* C16: a[key] raises, and returns nothing, when an index array follows a slice,
\* an integer or a None that follows an index array (IndexError when the lengths
\* agree) or when two index arrays differ in length (ValueError when they are
\* next to each other); a key whose index arrays are next to each other and of
\* one length is not rejected, whatever precedes or follows them.  The key is
\* taken with its ellipsis expanded.
C16_FancyRule ==
    op.name = "getitem" /\ KeyFits(shape(a), op.key) =>
      LET key == NpExpand(dim(a), op.key)
      IN /\ NonContiguous(key) \/ DifferentLengths(key)
              => res.kind \in {"IndexError", "ValueError"}
         /\ NonContiguous(key) /\ ~DifferentLengths(key) => res.kind = "IndexError"
         /\ DifferentLengths(key) /\ ~NonContiguous(key) => res.kind = "ValueError"
         /\ ~NonContiguous(key) /\ ~DifferentLengths(key)
              => res.kind \in {"Tensor", "Number"}

\* C16 witness: two index arrays of one length with an integer between them, on
\* a network of three axes, are rejected.
C16_Witness ==
    /\ op.name = "getitem" /\ KeyFits(shape(a), op.key) /\ res.kind = "IndexError"
    /\ Len(op.key) = 3 /\ op.key[1].t = "index" /\ op.key[2].t = "int" /\ op.key[3].t = "index"
    /\ Len(op.key[1].v) = Len(op.key[3].v)

(***************************************************************************)
(* Properties of rounding (specification SpecRound).                       *)
(***************************************************************************)
\* The bond ranks of the network the call was made on.
RanksAtCall == ranks_tt([cores |-> op.data])

\* C18: at every step of round_tt(rmax) the right rank of core n is the left
\* rank of core n+1, no bond rank is above its value at the call, and the
\* logical shape is as it was; when round_tt is done and rmax was given, every
\* interior bond rank is at most rmax.
C18_RoundTTRanks ==
    op.name = "round_tt" =>
      /\ \A n \in 1..dim(a) - 1 : LastSize(a.cores[n]) = a.cores[n + 1].sh[1]
      /\ \A n \in 1..dim(a) + 1 : ranks_tt(a)[n] <= RanksAtCall[n]
      /\ shape(a) = ShapeOf(op.data, op.Us)
      /\ b.pc = "done" /\ b.rmax > 0 => \A n \in 2..dim(a) : ranks_tt(a)[n] <= b.rmax

\* C18 witness: round_tt with rmax, on a network with a CP core and an interior
\* bond above rmax, is done.
C18_Witness ==
    /\ op.name = "round_tt" /\ b.pc = "done" /\ b.rmax > 0 /\ dim(a) >= 2
    /\ RanksAtCall[2] > b.rmax
    /\ \E n \in 1..Len(op.data) : Len(op.data[n].sh) = 2

IsPrefix(s, t) == Len(s) <= Len(t) /\ s = SubSeq(t, 1, Len(s))

\* round_tucker's sweep over the axes of a network of N axes: axis N, then
\* right_orthogonalize(N), axis N-1, ..., right_orthogonalize(2), axis 1.
Sweep(N) ==
    [j \in 1..2 * N - 1 |->
       IF j % 2 = 1 THEN <<"axis", N - (j - 1) \div 2>> ELSE <<"right", N - (j - 2) \div 2>>]

\* C20 as stated: round_tucker converts the cores to TT, right-orthogonalizes
\* the cores N down to 2 (N-1 down to 1, counted from 0), and then sweeps.
C20_RightOrthogonalizedFirst ==
    op.name = "round_tucker" =>
      /\ \A n \in 1..dim(a) : Len(a.cores[n].sh) = 3
      /\ IsPrefix(b.log, <<<<"cp_to_tt", 0>>>>
                           \o [j \in 1..dim(a) - 1 |-> <<"right", dim(a) + 1 - j>>]
                           \o Sweep(dim(a)))

\* C20 as amended: round_tucker converts the cores to TT, left-orthogonalizes
\* the cores 1 up to N-1 (0 up to N-2, counted from 0), which is
\* orthogonalize(-1), and then visits the axes N down to 1, right-orthogonalizing
\* core mu after axis mu > 1 and before axis mu-1.
C20_LeftOrthogonalizedFirst ==
    op.name = "round_tucker" =>
      /\ \A n \in 1..dim(a) : Len(a.cores[n].sh) = 3
      /\ IsPrefix(b.log, <<<<"cp_to_tt", 0>>>>
                           \o [j \in 1..dim(a) - 1 |-> <<"left", j>>]
                           \o Sweep(dim(a)))
      /\ b.pc = "done" => Len(b.log) = 3 * dim(a) - 1

\* C20 witness: round_tucker on a network of MaxN axes with a CP core is done.
C20_Witness ==
    /\ op.name = "round_tucker" /\ b.pc = "done" /\ dim(a) = MaxN
    /\ \E n \in 1..Len(op.data) : Len(op.data[n].sh) = 2

(***************************************************************************)
(* Properties of the constructor on a dense array (specifications          *)
(* SpecDense and FairDense).                                               *)
(***************************************************************************)
\* The call is a constructor call with options that exclude each other.
Conflicting ==
    /\ "ranks_cp" \in DOMAIN op.key
    /\ \/ op.key.eps # 0 /\ (op.key.ranks_cp # 0 \/ op.key.ranks_tucker # 0
                               \/ op.key.ranks_tt # 0)
       \/ op.key.ranks_cp # 0 /\ op.key.ranks_tt # 0

\* C11: when the constructor is given conflicting compression options on a
\* dense input (eps with a rank option, or ranks_cp with ranks_tt), it raises
\* ValueError before any computation step has run: no full-rank expansion, CP
\* initialization, ALS update, round_tucker or round_tt step is in the log.
C11_RejectedBeforeComputation ==
    Conflicting => b.log = <<>>

\* The sweeps of a CP-ALS construction: the axes updated so far, in order.
Updates == SelectSeq(b.log, LAMBDA c : c[1] = "als")

\* The convergence test holds between the errors of sweeps j-1 and j.
Below(j) == b.errors[j - 1] - b.errors[j] < op.key.tol

\* The constructor is in a CP-ALS construction and has left the sweep loop.
PastSweeps ==
    /\ "ranks_cp" \in DOMAIN op.key
    /\ op.key.ranks_cp # 0 /\ op.key.ranks_tt = 0
    /\ b.pc \in {"check", "end"}
    /\ \E i \in 1..Len(b.log) : b.log[i][1] = "cp_init"

ALSRule ==
    ("ranks_cp" \in DOMAIN op.key /\ op.key.ranks_cp # 0) =>
      LET N == IF Dim(op.data) = 0 THEN 1 ELSE Dim(op.data)
          k == Len(b.errors)
      IN /\ k <= op.key.max_iter
         /\ \A j \in 1..Len(Updates) : Updates[j][2] = ((j - 1) % N) + 1
         /\ Len(Updates) <= k * N + N
         /\ PastSweeps =>
              /\ Len(Updates) = k * N
              /\ k = op.key.max_iter \/ (k >= 2 /\ Below(k))
              /\ \A j \in 2..k - 1 : ~Below(j)
              /\ op.key.max_iter >= 2 => k >= 2
         /\ (PastSweeps /\ b.pc = "end" /\ op.key.eps = 0 /\ Dim(op.data) >= 1) =>
              res.kind = "Tensor" /\ dim(res) = N

Operands ==
    {op'.self} \cup (IF op'.name \in {"add", "mul"} /\ op'.arg # 0 THEN {op'.arg} ELSE {})

\* C12: evaluating t + u, t * u, t[key] (a mask key included) or t.clone()
\* changes neither t nor u: their cores, factors and index labels hold the same
\* values after the call as before it.
C12_OperandsUnchanged ==
    [][op'.name \in {"add", "mul", "getitem", "getitem_mask", "clone"}
         => \A j \in Operands : View(a', j) = View(a, j)]_vars

\* C13: an in-place operation on one instance changes neither the cores nor
\* the factors seen through any other instance.
C13_OthersUnchanged ==
    [][op'.name \in {"orthogonalize", "setitem"}
         => \A j \in 1..Len(a.inst) :
              j # op'.self => /\ View(a', j).cores = View(a, j).cores
                              /\ View(a', j).Us = View(a, j).Us]_vars

\* C14: in every instance the cores, the factors and the index labels are
\* sequences of one length N >= 1, and the labels of axis n are as many as
\* the size of axis n.
C14_SequencesAgree ==
    \A j \in 1..Len(a.inst) :
      LET t == View(a, j)
      IN /\ Len(t.cores) >= 1
         /\ Len(t.Us) = Len(t.cores)
         /\ Len(t.idxs) = Len(t.cores)
         /\ \A n \in 1..Len(t.cores) : Len(t.idxs[n]) = shape(t)[n]

\* The positions (0-based) that entry k of a key addresses on an axis of size
\* n in NumPy: one position for an integer, counted from the end when negative.
Region(k, n) == IF k.t = "int" THEN <<Wrap(k.v[1], n)>> ELSE SliceSel(k, n)

\* The array A after A[key] = value in NumPy, for a key with one integer or
\* slice per axis and a value that is a number or an array with one axis per
\* axis of A, as long on each as the addressed region.
NpSet(A, key, value) ==
    [sh |-> A.sh,
     e |-> [ix \in Ix(A.sh) |->
              IF \A n \in 1..Len(A.sh) :
                   \E j \in 1..Len(Region(key[n], A.sh[n])) :
                     Region(key[n], A.sh[n])[j] = ix[n] - 1
              THEN IF value.kind = "Number" THEN value.val
                   ELSE value.arr.e[[n \in 1..Len(A.sh) |->
                                       CHOOSE j \in 1..Len(Region(key[n], A.sh[n])) :
                                         Region(key[n], A.sh[n])[j] = ix[n] - 1]]
              ELSE A.e[ix]]]

\* The target of the last call as it was before the call.
Before == [kind |-> "Tensor", cores |-> op.data, Us |-> op.Us, idxs |-> <<>>]

\* The value of the last assignment has the shape of the region it addresses.
Matches ==
    \/ op.arg.kind = "Number"
    \/ /\ Dim(op.arg.arr) = dim(Before)
       /\ \A n \in 1..dim(Before) :
            op.arg.arr.sh[n] = Len(Region(op.key[n], shape(Before)[n]))

\* C17: after t[key] = v, for a key of integers (negative ones count from the
\* end) and slices and v a number or an array shaped as the addressed region,
\* decompress(t) is what the same assignment makes of the old decompress(t) in
\* NumPy (v inside the region, the old entries outside), and t has the shape
\* it had; for TT cores, CP cores and axes with factors alike.
C17_SetItemIsNumPy ==
    op.name = "setitem" /\ Matches =>
      /\ IsTensor(res)
      /\ shape(res) = shape(Before)
      /\ torch(res) = NpSet(torch(Before), op.key, op.arg)

(***************************************************************************)
(* The number of axes of a[key] (specification SpecIndex).                 *)
(***************************************************************************)
\* The axes a valid key leaves: one per slice, one per None and one for the
\* index arrays, if there are any.
AxesLeft(N, key) ==
    LET k == NpExpand(N, key)
    IN Cardinality({i \in 1..Len(k) : k[i].t \in {"slice", "none"}})
         + (IF \E i \in 1..Len(k) : k[i].t = "index" THEN 1 ELSE 0)

\* C21: for a valid key of integers, slices, None and one run of index arrays,
\* a[key] is a network with one axis per slice, one per None and one for the
\* index arrays; when no axis is left it is a number and not a network.
C21_AxesLeft ==
    op.name = "getitem" /\ ValidKey(shape(a), op.key) =>
      IF AxesLeft(dim(a), op.key) = 0
      THEN res.kind = "Number"
      ELSE IsTensor(res) /\ dim(res) = AxesLeft(dim(a), op.key)

\* C21 (witness): a valid key with an integer, None and an index array on a
\* network with a CP core, where a[key] has the two axes of None and of the
\* index array.
C21_Witness ==
    /\ op.name = "getitem"
    /\ ValidKey(shape(a), op.key)
    /\ \E n \in 1..dim(a) : Dim(a.cores[n]) = 2
    /\ \E i \in 1..Len(op.key) : op.key[i].t = "int"
    /\ \E i \in 1..Len(op.key) : op.key[i].t = "index"
    /\ \E i \in 1..Len(op.key) : op.key[i].t = "none"
    /\ IsTensor(res)
    /\ dim(res) = 2

(***************************************************************************)
(* The full-rank expansion (specification SpecDense).                      *)
(***************************************************************************)
\* The state right after self.cores = _full_rank_tt(data).
Expanded == b.log = <<<<"full_rank_tt", 0>>>>

\* The ranks the expansion must have on an array of shape s: 1 at both ends,
\* and between axes the smaller of the two products of sizes.
FullRanks(s) ==
    [n \in 1..Len(s) + 1 |->
       IF n = 1 \/ n = Len(s) + 1 THEN 1
       ELSE Min2(Prod(SubSeq(s, 1, n - 1)), Prod(SubSeq(s, n, Len(s))))]

\* C22: for an array of N >= 1 axes of sizes s, _full_rank_tt returns N cores,
\* core n of shape (r[n], s[n], r[n+1]) with r = 1 at both ends and the smaller
\* product of sizes in between, and no reshape in it changes the number of
\* entries.
C22_FullRankShapes ==
    Expanded =>
      /\ Len(a.cores) = Dim(b.data)
      /\ \A n \in 1..Len(a.cores) :
           /\ ~IsBad(a.cores[n])
           /\ a.cores[n].sh = <<FullRanks(b.data.sh)[n], b.data.sh[n],
                                FullRanks(b.data.sh)[n + 1]>>

\* C22 (witness): three axes of different sizes, expanded with an identity on
\* the left of the second core and one on the right of it.
C22_Witness ==
    /\ Expanded
    /\ b.data.sh = <<2, MaxSize, 2>>
    /\ a.cores[2].sh = <<2, MaxSize, 2>>

\* The last call was Tensor(data) without rank or eps options.
Plain ==
    /\ op.name = "Tensor"
    /\ op.key.ranks_cp = 0 /\ op.key.ranks_tucker = 0
    /\ op.key.ranks_tt = 0 /\ op.key.eps = 0

\* C23: Tensor(data) for a 0-dimensional data, without rank or eps options,
\* succeeds and gives a network of one axis of size 1, with one core, one
\* absent factor and one sequence of index labels.
C23_ScalarInput ==
    Plain /\ Dim(op.data) = 0 /\ b.pc = "end" =>
      /\ IsTensor(res)
      /\ Len(res.cores) = 1 /\ Len(res.Us) = 1 /\ Len(res.idxs) = 1
      /\ IsNone(res.Us[1])
      /\ shape(res) = <<1>>

=============================================================================
